---- MODULE Spec2Model ----
(***************************************************************************)
(* Model of the per-user push scheduler of Milky_Tarot:                    *)
(*   src/src/utils/scheduler.py  PushScheduler (the job registry, the      *)
(*                               offset translator, the callback wrapper)  *)
(*   src/src/bot/main.py         startup rehydration                       *)
(*   src/src/bot/handlers.py     the settings handlers that reschedule     *)
(*                                                                         *)
(* Strings are sequences of one-character strings, so that split(":"),     *)
(* int() and the "%02d" formatting are computed as Python computes them.   *)
(* The APScheduler BackgroundScheduler is modelled by its job table: the   *)
(* memory job store (a dict keyed by job id) while it runs, the list of    *)
(* pending jobs while it is stopped.                                       *)
(***************************************************************************)
EXTENDS Integers, Sequences, FiniteSets, TLC

(***************************************************************************)
(* Bounds of the model.                                                    *)
(***************************************************************************)
MaxUser == 2
MaxOffset == 25
\* The last day, counted from day 0, that the clock reaches.
MaxDay == 2
\* How many "check payment" callbacks for the payment can be in flight.
MaxManual == 2
\* The largest fish balance a top-up may reach.
MaxFish == 350
\* Broadcast tokens handed out, and confirm callbacks that can be in flight.
MaxToken == 2
MaxConfirm == 2

Users == 1..MaxUser

\* The callbacks ("actions") a caller can register.
Callbacks == {"a"}

(***************************************************************************)
(* Python strings.                                                         *)
(***************************************************************************)
Digits == <<"0", "1", "2", "3", "4", "5", "6", "7", "8", "9">>

DigitSet == {"0", "1", "2", "3", "4", "5", "6", "7", "8", "9"}

IsDigit(c) == c \in DigitSet

DigitVal(c) ==
    CASE c = "0" -> 0 [] c = "1" -> 1 [] c = "2" -> 2 [] c = "3" -> 3 [] c = "4" -> 4
      [] c = "5" -> 5 [] c = "6" -> 6 [] c = "7" -> 7 [] c = "8" -> 8 [] c = "9" -> 9

\* str.split(":") : the parts between the colons, empty parts included.
Split(s) ==
    LET F[i \in 0..Len(s)] ==
            IF i = 0 THEN << <<>>, <<>> >>
            ELSE LET p == F[i - 1] IN
                 IF s[i] = ":" THEN << Append(p[1], p[2]), <<>> >>
                 ELSE << p[1], Append(p[2], s[i]) >>
    IN  Append(F[Len(s)][1], F[Len(s)][2])

\* The digits of an integer literal once its sign is taken off.
Unsigned(p) == IF Len(p) > 0 /\ p[1] \in {"-", "+"} THEN Tail(p) ELSE p

\* int(p) succeeds: an optional sign followed by at least one digit
\* (over the alphabet of TimeStrs: no blanks, no underscores).
IsInt(p) == /\ Len(Unsigned(p)) > 0
            /\ \A i \in 1..Len(Unsigned(p)) : IsDigit(Unsigned(p)[i])

\* int(p) for a p that IsInt.
IntVal(p) ==
    LET d == Unsigned(p)
        V[i \in 0..Len(d)] == IF i = 0 THEN 0 ELSE 10 * V[i - 1] + DigitVal(d[i])
    IN  IF Len(p) > 0 /\ p[1] = "-" THEN 0 - V[Len(d)] ELSE V[Len(d)]

\* str(n) for n >= 0.
RECURSIVE DecStr(_)
DecStr(n) == IF n < 10 THEN << Digits[n + 1] >>
             ELSE Append(DecStr(n \div 10), Digits[(n % 10) + 1])

\* f"{n:02d}" : zero-padded to a width of two, the sign counted in the width.
Fmt02d(n) ==
    IF n < 0 THEN << "-" >> \o DecStr(0 - n)
    ELSE IF n < 10 THEN << "0" >> \o DecStr(n)
    ELSE DecStr(n)

\* hour, minute = map(int, time_str.split(":")) ; ok = FALSE is the ValueError
\* (a part that is no integer, fewer or more than two parts).
ParseTime(s) ==
    LET parts == Split(s) IN
    IF Len(parts) = 2 /\ IsInt(parts[1]) /\ IsInt(parts[2])
    THEN [ok |-> TRUE, hour |-> IntVal(parts[1]), minute |-> IntVal(parts[2])]
    ELSE [ok |-> FALSE, hour |-> 0, minute |-> 0]

\* Python's % for a positive modulus: the result has the sign of the modulus.
PyMod(a, b) == a - b * (IF a >= 0 THEN a \div b ELSE 0 - ((0 - a + b - 1) \div b))

\* "HH:MM" of an hour and a minute.
TimeStr(h, m) == Fmt02d(h) \o << ":" >> \o Fmt02d(m)


(***************************************************************************)
(* Inputs.                                                                 *)
(***************************************************************************)
\* The time strings callers pass: well-formed ones, numeric ones out of
\* range, and ones that int() or the unpacking rejects.
T0800 == <<"0", "8", ":", "0", "0">>
T0900 == <<"0", "9", ":", "0", "0">>
T2500 == <<"2", "5", ":", "0", "0">>
TNeg1 == <<"-", "1", ":", "0", "0">>
T1060 == <<"1", "0", ":", "6", "0">>
TAbCd == <<"a", "b", ":", "c", "d">>
TThree == <<"1", ":", "2", ":", "3">>
T0700 == <<"0", "7", ":", "0", "0">>

ValidTimeStrs == {T0800, T0900}
OutOfRangeTimeStrs == {T2500, TNeg1, T1060}
UnparsableTimeStrs == {TAbCd, TThree}
TimeStrs == ValidTimeStrs \cup OutOfRangeTimeStrs \cup UnparsableTimeStrs

\* The time strings passed to schedule_daily_with_offset and to
\* schedule_every_n_days.
OffsetTimeStrs == {T0800, T2500, TAbCd}
EveryTimeStrs == {T0800, T1060}

\* Offsets from the reference zone passed to the registry.
Offsets == {-1, 9}

\* n_days values for schedule_every_n_days: one rejected, one accepted.
NDays == {0, 2}

\* "HH:MM" with hour in 0..23 and minute in 0..59.
WellFormed(s) ==
    /\ ParseTime(s).ok
    /\ ParseTime(s).hour \in 0..23
    /\ ParseTime(s).minute \in 0..59

(***************************************************************************)
(* The APScheduler job table.                                              *)
(***************************************************************************)
NoJob == [kind |-> "none", user |-> 0, hour |-> 0, minute |-> 0, days |-> 0, cb |-> "none"]

\* PushScheduler._job_id : f"push-{user_id}"
JobId(u) == <<"push-", u>>

JobIds == {JobId(u) : u \in Users}

\* BackgroundScheduler(timezone=...) as constructed: stopped, no jobs.
NewScheduler ==
    [state |-> "stopped", jobs |-> [i \in JobIds |-> NoJob], pending |-> <<>>]

\* The index of the first pending job with this id, 0 when there is none.
PendingIndex(sch, id) ==
    IF \E i \in 1..Len(sch.pending) : sch.pending[i].id = id
    THEN CHOOSE i \in 1..Len(sch.pending) :
            /\ sch.pending[i].id = id
            /\ \A j \in 1..(i - 1) : sch.pending[j].id # id
    ELSE 0

\* scheduler.get_job(job_id): the pending list while stopped, the store
\* while running; NoJob stands for None.
GetJob(sch, id) ==
    IF sch.state = "stopped"
    THEN IF PendingIndex(sch, id) = 0 THEN NoJob
         ELSE sch.pending[PendingIndex(sch, id)].job
    ELSE sch.jobs[id]

\* scheduler.remove_job(job_id) raises JobLookupError.
RemoveJobRaises(sch, id) == GetJob(sch, id) = NoJob

\* A remove_job that leaves the table as it is.
RemoveJobKeeps(sch, id) == sch

\* scheduler.remove_job(job_id) when it does not raise.
RemoveJob(sch, id) ==
    IF sch.state = "stopped"
    THEN LET k == PendingIndex(sch, id) IN
         [sch EXCEPT !.pending =
              [i \in 1..(Len(sch.pending) - 1) |->
                   IF i < k THEN sch.pending[i] ELSE sch.pending[i + 1]]]
    ELSE [sch EXCEPT !.jobs[id] = NoJob]

\* An add_job that drops the job of a scheduler that is not running.
AddJobRunningOnly(sch, id, job) ==
    IF sch.state = "stopped" THEN sch ELSE [sch EXCEPT !.jobs[id] = job]

\* scheduler.add_job(..., id=job_id, replace_existing=True): appended to the
\* pending list while stopped, put in the store (over a job of the same id)
\* while running.
AddJob(sch, id, job) ==
    IF sch.state = "stopped"
    THEN [sch EXCEPT !.pending = Append(sch.pending, [id |-> id, job |-> job])]
    ELSE [sch EXCEPT !.jobs[id] = job]

\* scheduler.start(): the pending jobs are really added, in order, each with
\* its replace_existing flag (always True here).
RECURSIVE AddAll(_, _)
AddAll(jobs, pend) ==
    IF pend = <<>> THEN jobs
    ELSE AddAll([jobs EXCEPT ![Head(pend).id] = Head(pend).job], Tail(pend))

SchedulerStart(sch) ==
    [state |-> "running", jobs |-> AddAll(sch.jobs, sch.pending), pending |-> <<>>]

\* scheduler.shutdown(wait=False): the memory job store drops its jobs.
SchedulerShutdown(sch) ==
    [state |-> "stopped", jobs |-> [i \in JobIds |-> NoJob], pending |-> sch.pending]

\* scheduler.start() raises SchedulerAlreadyRunningError on a running
\* scheduler; scheduler.shutdown() raises SchedulerNotRunningError on a
\* stopped one.
SchedulerStartRaises(sch) == sch.state = "running"

SchedulerShutdownRaises(sch) == sch.state = "stopped"

\* CronTrigger(hour=hour, minute=minute) and datetime.time(hour=, minute=)
\* raise ValueError outside these ranges.
FieldsInRange(hour, minute) == hour \in 0..23 /\ minute \in 0..59

CronJob(u, hour, minute, cb) ==
    [kind |-> "cron", user |-> u, hour |-> hour, minute |-> minute, days |-> 1, cb |-> cb]

IntervalJob(u, hour, minute, n, cb) ==
    [kind |-> "interval", user |-> u, hour |-> hour, minute |-> minute, days |-> n, cb |-> cb]

\* The jobs registered for a user, in the store and in the pending list.
JobsOf(sch, u) ==
    {sch.jobs[i] : i \in {j \in JobIds : sch.jobs[j].user = u}}
        \cup {sch.pending[i].job : i \in {j \in 1..Len(sch.pending) : sch.pending[j].job.user = u}}

\* How many table entries (store slots and pending entries) belong to u.
JobCount(sch, u) ==
    Cardinality({i \in JobIds : sch.jobs[i].user = u})
        + Cardinality({i \in 1..Len(sch.pending) : sch.pending[i].job.user = u})

(***************************************************************************)
(* PushScheduler.                                                          *)
(***************************************************************************)
\* A remove that leaves the job in place.
RemoveNoop(sch, u) == sch

\* A remove that empties the whole table.
RemoveEveryJob(sch, u) ==
    [sch EXCEPT !.jobs = [i \in JobIds |-> NoJob], !.pending = <<>>]

\* PushScheduler.remove
Remove(sch, u) ==
    IF GetJob(sch, JobId(u)) # NoJob THEN RemoveJob(sch, JobId(u)) ELSE sch

\* A has_job that looks in the running store only.
HasJobStoreOnly(sch, u) == sch.jobs[JobId(u)] # NoJob

\* PushScheduler.has_job
HasJob(sch, u) == GetJob(sch, JobId(u)) # NoJob

\* A schedule_daily that keeps the job the user already has.
ScheduleDailyFirstWins(sch, u, s, cb) ==
    LET t == ParseTime(s) IN
    IF ~t.ok THEN [outcome |-> "rejected", sch |-> sch]
    ELSE IF ~FieldsInRange(t.hour, t.minute)
         THEN [outcome |-> "raised", sch |-> sch]
         ELSE IF GetJob(sch, <<"push-", u>>) # NoJob
              THEN [outcome |-> "scheduled", sch |-> sch]
              ELSE [outcome |-> "scheduled",
                    sch |-> AddJob(sch, <<"push-", u>>, CronJob(u, t.hour, t.minute, cb))]

\* PushScheduler.schedule_daily: outcome "rejected" is the logged early
\* return, "raised" the ValueError of CronTrigger leaving the call after
\* the old job was removed, "scheduled" the normal return.
ScheduleDaily(sch, u, s, cb) ==
    LET t == ParseTime(s) IN
    IF ~t.ok THEN [outcome |-> "rejected", sch |-> sch]
    ELSE IF ~FieldsInRange(t.hour, t.minute)
         THEN [outcome |-> "raised", sch |-> Remove(sch, u)]
         ELSE [outcome |-> "scheduled",
               sch |-> AddJob(Remove(sch, u), JobId(u), CronJob(u, t.hour, t.minute, cb))]

\* A translator without the modulo, and one that adds the offset.
ConvertNoWrap(s, o) ==
    LET t == ParseTime(s) IN
    IF ~t.ok THEN s ELSE TimeStr(t.hour - o, t.minute)

ConvertAddsOffset(s, o) ==
    LET t == ParseTime(s) IN
    IF ~t.ok THEN s ELSE TimeStr(PyMod(t.hour + o, 24), t.minute)

\* PushScheduler.convert_user_time_to_moscow
ConvertUserTimeToMoscow(s, o) ==
    LET t == ParseTime(s) IN
    IF ~t.ok THEN s ELSE TimeStr(PyMod(t.hour - o, 24), t.minute)

\* PushScheduler.schedule_daily_with_offset
ScheduleDailyWithOffset(sch, u, s, o, cb) ==
    ScheduleDaily(sch, u, ConvertUserTimeToMoscow(s, o), cb)

\* PushScheduler.schedule_every_n_days
ScheduleEveryNDays(sch, u, s, n, cb) ==
    LET t == ParseTime(s) IN
    IF n <= 0 \/ ~t.ok THEN [outcome |-> "rejected", sch |-> sch]
    ELSE IF ~FieldsInRange(t.hour, t.minute)
         THEN [outcome |-> "raised", sch |-> Remove(sch, u)]
         ELSE [outcome |-> "scheduled",
               sch |-> AddJob(Remove(sch, u), JobId(u), IntervalJob(u, t.hour, t.minute, n, cb))]


(***************************************************************************)
(* State.                                                                  *)
(***************************************************************************)
VARIABLES
    started,     \* PushScheduler.started
    loop,        \* PushScheduler._loop is set
    scheduler,   \* PushScheduler.scheduler, the BackgroundScheduler
    lastCall,    \* the last registry call made, its arguments and how it ended
    callers,     \* the concurrent callers of schedule_daily, by name
    fired,       \* per user, the job the timer thread fired last
    db,          \* the users table: the persisted profiles
    phase,       \* where the bot process is in its startup sequence
    queue,       \* the users rehydration has still to visit
    conv,        \* the translator's input and result
    bridge,      \* the wrapped callbacks being run, and the event loop's side
    clock,       \* the date and hour in the reference zone, the day's firings
    push,        \* per user, the run of the push action send_push_card
    pay,         \* one payment: its row, the provider's side, the checks in flight
    wallet,      \* per user, the fish balance and the counters of the day
    bcast        \* the pending admin broadcasts and the callbacks in flight

vars == <<started, loop, scheduler, lastCall, callers, pay, wallet, bcast, fired, db, phase, queue, conv, bridge,
          clock, push>>

NoCall ==
    [op |-> "none", user |-> 0, time |-> <<>>, offset |-> 0, days |-> 0,
     cb |-> "none", outcome |-> "none", before |-> NoJob]

\* A call record: the operation, its arguments, how it ended, and the job
\* the user had when the call was made.
Call(op, u, s, o, n, cb, outcome, before) ==
    [op |-> op, user |-> u, time |-> s, offset |-> o, days |-> n,
     cb |-> cb, outcome |-> outcome, before |-> before]

\* A profile row that does not exist.  last_card is "none" for NULL, the
\* dates are day numbers, -1 for NULL.
NoRow ==
    [exists |-> FALSE, push_enabled |-> FALSE, push_time |-> <<>>, tz_offset_hours |-> 0,
     last_card |-> "none", last_card_date |-> -1, last_activity_date |-> -1, draw_count |-> 0]

NoConv == [time |-> <<>>, hour |-> 0, minute |-> 0, offset |-> 0, result |-> <<>>, done |-> FALSE]

\* One run of a wrapped callback (the runner of _wrap_callback) for a user:
\*   pc       "idle", "runner" (submitted, before line 47), "handoff" (the
\*            callback returned a coroutine, before line 49), "returned"
\*   cb       the callback of the job that fired
\*   logged   logger.exception of line 53 was called
\*   escaped  an exception left the runner
\*   handed   how many times run_coroutine_threadsafe accepted the coroutine
\*   onThread the action's body ran on the firing thread
\*   seen     what line 49 found: "none" (not reached), "unset" (no loop
\*            configured), "closed", "open"
\*   stopped  the registry was stopped when the runner returned
\*   co       the coroutine: "none", "queued" on the loop, "done", "failed"
\*            (it raised on the loop), "dropped" (the loop closed first)
NoRun ==
    [pc |-> "idle", cb |-> "none", logged |-> FALSE, escaped |-> FALSE, handed |-> 0,
     onThread |-> FALSE, seen |-> "none", stopped |-> FALSE, co |-> "none"]

\* No callback running, the loop not closed.
NoBridge == [run |-> [u \in Users |-> NoRun], closed |-> FALSE]

\* The clock at the start of the first day:
\*   day, hour  the date (a day number) and the hour in the reference zone
\*   zone       the offset of the process's local zone from the reference zone
\*   count      per user, the firings of the user's job on this date
\*   done       per user, the job has run, or was registered, in this hour
\*   whole      per user, the job is registered since before this date began
\*   at         per user, the reference hour of the last firing, -1 for none
NoClock ==
    [day |-> 0, hour |-> 0, zone |-> 0, count |-> [u \in Users |-> 0],
     done |-> [u \in Users |-> FALSE], whole |-> [u \in Users |-> FALSE],
     at |-> [u \in Users |-> -1]]

\* No push action queued or run: pc is "idle", "queued" (the coroutine is
\* on the loop) or "ended"; outcome is how send_push_card ended.
NoPush == [u \in Users |-> [pc |-> "idle", outcome |-> "none"]]

\* The "check payment" callbacks that can be in flight at once.
Manuals == 1..MaxManual

\* No payment yet:
\*   exists, status  the payments row and its stored status
\*   provider        the payment's state at the provider
\*   credits         how many times fish_amount was added to the balance
\*   auto            the background check: pc, polls begun, the provider's
\*                   answer in hand, how the check ended
\*   manual          the "check payment" callbacks: pc, the answer in hand
NoPay ==
    [exists |-> FALSE, status |-> "none", provider |-> "pending", credits |-> 0,
     auto |-> [pc |-> "none", polls |-> 0, got |-> "none", end |-> "none"],
     manual |-> [m \in Manuals |-> [pc |-> "idle", got |-> "none"]]]

\* The fish balance and the counters of the day of every user: the columns
\* fish_balance, three_keys_last_date, three_keys_daily_count,
\* advice_last_date, daily_advice_count (dates are day numbers, -1 for NULL);
\* last is what the last handler run for the user did.
NoWallet ==
    [u \in Users |->
        [fish_balance |-> 0, three_keys_last_date |-> -1, three_keys_daily_count |-> 0,
         advice_last_date |-> -1, daily_advice_count |-> 0, last |-> "none"]]

\* PENDING_PUSHES empty and no callback in flight.
Tokens == 1..MaxToken
Confirms == 1..MaxConfirm
NoBcast ==
    [made |-> 0,
     pending |-> {},
     push_type |-> [t \in Tokens |-> "none"],
     found |-> [t \in Tokens |-> 0],
     handled |-> {},
     calls |-> [c \in Confirms |-> [pc |-> "idle", token |-> 0, result |-> "none"]]]

\* PushScheduler.__init__
InitRegistry ==
    /\ started = FALSE
    /\ loop = FALSE
    /\ scheduler = NewScheduler
    /\ lastCall = NoCall
    /\ fired = [u \in Users |-> NoJob]

InitIdle ==
    /\ callers = <<>>
    /\ db = [u \in Users |-> NoRow]
    /\ phase = "none"
    /\ queue = <<>>
    /\ conv = NoConv
    /\ bridge = NoBridge
    /\ clock = NoClock
    /\ push = NoPush
    /\ pay = NoPay
    /\ wallet = NoWallet
    /\ bcast = NoBcast

Init == InitRegistry /\ InitIdle

(***************************************************************************)
(* The registry's operations, called one after the other (the handlers run *)
(* on the one event loop, and no registry call suspends).                  *)
(***************************************************************************)
rest == <<callers, pay, wallet, bcast, fired, db, phase, queue, conv, bridge, clock, push>>

\* PushScheduler.configure
Configure ==
    /\ loop' = TRUE
    /\ lastCall' = Call("configure", 0, <<>>, 0, 0, "none", "returned", NoJob)
    /\ UNCHANGED <<started, scheduler, rest>>

\* A start without the started flag.
StartUnguarded ==
    /\ IF SchedulerStartRaises(scheduler)
       THEN /\ UNCHANGED <<scheduler, started>>
            /\ lastCall' = Call("start", 0, <<>>, 0, 0, "none", "raised", NoJob)
       ELSE /\ scheduler' = SchedulerStart(scheduler)
            /\ started' = TRUE
            /\ lastCall' = Call("start", 0, <<>>, 0, 0, "none", "returned", NoJob)
    /\ UNCHANGED <<loop, rest>>

\* PushScheduler.start: outcome "skipped" is the call that finds the flag
\* set, "raised" the exception of scheduler.start() leaving the call before
\* the flag is set.
Start ==
    /\ IF started
       THEN /\ UNCHANGED <<scheduler, started>>
            /\ lastCall' = Call("start", 0, <<>>, 0, 0, "none", "skipped", NoJob)
       ELSE IF SchedulerStartRaises(scheduler)
            THEN /\ UNCHANGED <<scheduler, started>>
                 /\ lastCall' = Call("start", 0, <<>>, 0, 0, "none", "raised", NoJob)
            ELSE /\ scheduler' = SchedulerStart(scheduler)
                 /\ started' = TRUE
                 /\ lastCall' = Call("start", 0, <<>>, 0, 0, "none", "returned", NoJob)
    /\ UNCHANGED <<loop, rest>>

\* PushScheduler.shutdown: outcome "skipped" is the call that finds the
\* flag clear, "raised" the exception of scheduler.shutdown() leaving the
\* call before the flag is cleared.
Shutdown ==
    /\ IF ~started
       THEN /\ UNCHANGED <<scheduler, started>>
            /\ lastCall' = Call("shutdown", 0, <<>>, 0, 0, "none", "skipped", NoJob)
       ELSE IF SchedulerShutdownRaises(scheduler)
            THEN /\ UNCHANGED <<scheduler, started>>
                 /\ lastCall' = Call("shutdown", 0, <<>>, 0, 0, "none", "raised", NoJob)
            ELSE /\ scheduler' = SchedulerShutdown(scheduler)
                 /\ started' = FALSE
                 /\ lastCall' = Call("shutdown", 0, <<>>, 0, 0, "none", "returned", NoJob)
    /\ UNCHANGED <<loop, rest>>

CallScheduleDaily(u, s, cb) ==
    LET r == ScheduleDaily(scheduler, u, s, cb) IN
    /\ scheduler' = r.sch
    /\ lastCall' = Call("schedule_daily", u, s, 0, 0, cb, r.outcome,
                        GetJob(scheduler, JobId(u)))
    /\ UNCHANGED <<started, loop, rest>>

CallScheduleDailyWithOffset(u, s, o, cb) ==
    LET r == ScheduleDailyWithOffset(scheduler, u, s, o, cb) IN
    /\ scheduler' = r.sch
    /\ lastCall' = Call("schedule_daily_with_offset", u, s, o, 0, cb, r.outcome,
                        GetJob(scheduler, JobId(u)))
    /\ UNCHANGED <<started, loop, rest>>

CallScheduleEveryNDays(u, s, n, cb) ==
    LET r == ScheduleEveryNDays(scheduler, u, s, n, cb) IN
    /\ scheduler' = r.sch
    /\ lastCall' = Call("schedule_every_n_days", u, s, 0, n, cb, r.outcome,
                        GetJob(scheduler, JobId(u)))
    /\ UNCHANGED <<started, loop, rest>>

\* remove_job raises only when the job get_job returned is gone again.
CallRemove(u) ==
    /\ scheduler' = Remove(scheduler, u)
    /\ lastCall' = Call("remove", u, <<>>, 0, 0, "none",
                        IF HasJob(scheduler, u) /\ RemoveJobRaises(scheduler, JobId(u))
                        THEN "raised" ELSE "returned",
                        GetJob(scheduler, JobId(u)))
    /\ UNCHANGED <<started, loop, rest>>

Next ==
    \/ Start
    \/ Shutdown
    \/ \E u \in Users, s \in TimeStrs, cb \in Callbacks : CallScheduleDaily(u, s, cb)
    \/ \E u \in Users, s \in OffsetTimeStrs, o \in Offsets, cb \in Callbacks :
           CallScheduleDailyWithOffset(u, s, o, cb)
    \/ \E u \in Users, s \in EveryTimeStrs, n \in NDays, cb \in Callbacks :
           CallScheduleEveryNDays(u, s, n, cb)
    \/ \E u \in Users : CallRemove(u)

Spec == Init /\ [][Next]_vars


(***************************************************************************)
(* Claims about the registry's operations.                                 *)
(***************************************************************************)
\* The hour and minute the well-formed input strings denote.
ClaimHour(s) == CASE s = T0800 -> 8 [] s = T0900 -> 9

ClaimMinute(s) == CASE s = T0800 -> 0 [] s = T0900 -> 0

\* The strings whose hour is outside 0..23.
BadHourStrs == {T2500, TNeg1}

\* C1: after any sequence of schedule_daily, schedule_daily_with_offset,
\* schedule_every_n_days and remove calls, the registry holds at most one
\* job per user id (store slots and pending entries counted together).
C1_AtMostOneJobPerUser ==
    \A u \in Users : JobCount(scheduler, u) <= 1

\* C1 witness: a schedule call replaced the job its user had, another user
\* holds a job too, and each has exactly one.
C1_Witness ==
    /\ lastCall.outcome = "scheduled"
    /\ lastCall.before # NoJob
    /\ JobCount(scheduler, lastCall.user) = 1
    /\ \E v \in Users : v # lastCall.user /\ JobCount(scheduler, v) = 1

\* C4: a schedule_daily with a valid time that directly follows a
\* schedule_daily for the same user with a different valid time leaves
\* exactly one job for the user, at the time of the second call.
C4_SecondTimeWins ==
    [][ ( /\ lastCall.op = "schedule_daily"
          /\ lastCall.time \in ValidTimeStrs
          /\ lastCall'.op = "schedule_daily"
          /\ lastCall'.user = lastCall.user
          /\ lastCall'.time \in ValidTimeStrs
          /\ lastCall'.time # lastCall.time )
        => ( /\ JobCount(scheduler', lastCall'.user) = 1
             /\ JobsOf(scheduler', lastCall'.user) =
                    {CronJob(lastCall'.user, ClaimHour(lastCall'.time),
                             ClaimMinute(lastCall'.time), lastCall'.cb)} ) ]_vars

\* C4 witness: schedule_daily(u, "09:00") has returned for a user whose job
\* was the 08:00 one, and the user's only job is now at 09:00.
C4_Witness ==
    /\ lastCall.op = "schedule_daily"
    /\ lastCall.time = T0900
    /\ lastCall.before = CronJob(lastCall.user, 8, 0, lastCall.cb)
    /\ JobsOf(scheduler, lastCall.user) = {CronJob(lastCall.user, 9, 0, lastCall.cb)}

\* C5: for every time string that is not "HH:MM" with hour in 0..23 and
\* minute in 0..59, schedule_daily returns normally: no exception surfaces.
C5_InvalidTimeNeverRaises ==
    (lastCall.op = "schedule_daily" /\ lastCall.time \notin ValidTimeStrs)
        => lastCall.outcome # "raised"

\* C6: a schedule_daily call with an invalid time string is a no-op on the
\* registry: every job that existed before the call still exists after it.
C6_InvalidTimeIsNoop ==
    [][ (lastCall'.op = "schedule_daily" /\ lastCall'.time \notin ValidTimeStrs)
        => scheduler' = scheduler ]_vars

\* C7: schedule_daily_with_offset with a local time whose hour is outside
\* 0..23 does not schedule a job for the user.
C7_BadHourNotScheduled ==
    (lastCall.op = "schedule_daily_with_offset" /\ lastCall.time \in BadHourStrs)
        => /\ lastCall.outcome # "scheduled"
           /\ JobsOf(scheduler, lastCall.user) \subseteq {lastCall.before}

\* C9: schedule_daily_with_offset(u, "h:m", o, action) with a valid local
\* time leaves the registry in the state schedule_daily(u, "H:m", action)
\* leaves it in, H = (h - o) mod 24: exactly one job for u, at H:m.
C9_OffsetEqualsDailyAtTranslated ==
    [][ (lastCall'.op = "schedule_daily_with_offset" /\ lastCall'.time \in ValidTimeStrs)
        => LET u == lastCall'.user
               H == (ClaimHour(lastCall'.time) - lastCall'.offset) % 24
               m == ClaimMinute(lastCall'.time)
           IN  /\ scheduler' = ScheduleDaily(scheduler, u, TimeStr(H, m), lastCall'.cb).sch
               /\ JobCount(scheduler', u) = 1
               /\ JobsOf(scheduler', u) = {CronJob(u, H, m, lastCall'.cb)} ]_vars

\* C9 witness: schedule_daily_with_offset(u, "08:00", 9) replaced a job of
\* the user; the user's only job now fires at 23:00.
C9_Witness ==
    /\ lastCall.op = "schedule_daily_with_offset"
    /\ lastCall.time = T0800
    /\ lastCall.offset = 9
    /\ lastCall.before # NoJob
    /\ JobsOf(scheduler, lastCall.user) = {CronJob(lastCall.user, 23, 0, lastCall.cb)}

\* C18: start() on a started registry and shutdown() on a stopped or
\* never-started one change nothing; the underlying scheduler is never
\* started while it runs nor shut down while it is stopped; the flag and
\* the scheduler's state agree; none of these calls raises.
C18_StartShutdownIdempotent ==
    [][ /\ lastCall'.op \in {"start", "shutdown"} => lastCall'.outcome # "raised"
        /\ (lastCall'.op = "start" /\ started)
            => (scheduler' = scheduler /\ started' /\ lastCall'.outcome = "skipped")
        /\ (lastCall'.op = "shutdown" /\ ~started)
            => (scheduler' = scheduler /\ ~started' /\ lastCall'.outcome = "skipped")
        /\ lastCall'.op = "start" => (started' /\ scheduler'.state = "running")
        /\ lastCall'.op = "shutdown" => (~started' /\ scheduler'.state = "stopped")
        /\ (scheduler'.state # scheduler.state) => lastCall'.outcome = "returned"
        /\ started' <=> scheduler'.state = "running" ]_vars

\* C18 witness: start() was called on a started registry holding a job, and
\* the registry is as it was: started, the job in the running store.
C18_Witness ==
    /\ lastCall.op = "start"
    /\ lastCall.outcome = "skipped"
    /\ started
    /\ scheduler.state = "running"
    /\ \E u \in Users : scheduler.jobs[JobId(u)] # NoJob

\* C20: remove(u) for a user without a job returns without raising and
\* leaves the registry unchanged; remove(u) for a user with a job deletes
\* that job and leaves every other user's job in place.
C20_RemoveFrame ==
    [][ lastCall'.op = "remove" =>
          LET u == lastCall'.user
              Others(e) == e.id # JobId(u)
          IN  /\ lastCall'.outcome = "returned"
              /\ lastCall'.before = NoJob => scheduler' = scheduler
              /\ JobCount(scheduler', u) = 0
              /\ scheduler'.state = scheduler.state
              /\ \A v \in Users \ {u} : scheduler'.jobs[JobId(v)] = scheduler.jobs[JobId(v)]
              /\ scheduler'.pending = SelectSeq(scheduler.pending, Others) ]_vars

\* C20 witness: remove(u) was called for a user that had a job; that job
\* is gone and another user's job is still there.
C20_Witness ==
    /\ lastCall.op = "remove"
    /\ lastCall.before # NoJob
    /\ JobCount(scheduler, lastCall.user) = 0
    /\ \E v \in Users : v # lastCall.user /\ JobCount(scheduler, v) = 1


(***************************************************************************)
(* The offset translator on its own: every local hour and minute, every    *)
(* offset up to MaxOffset either way.                                      *)
(***************************************************************************)
ConvInputs ==
    {[time |-> TimeStr(h, m), hour |-> h, minute |-> m, offset |-> o,
      result |-> <<>>, done |-> FALSE] :
        h \in 0..23, m \in 0..59, o \in (0 - MaxOffset)..MaxOffset}

InitConvert ==
    /\ InitRegistry
    /\ callers = <<>>
    /\ db = [u \in Users |-> NoRow]
    /\ phase = "none"
    /\ queue = <<>>
    /\ bridge = NoBridge
    /\ clock = NoClock
    /\ push = NoPush
    /\ pay = NoPay
    /\ wallet = NoWallet
    /\ bcast = NoBcast
    /\ conv \in ConvInputs

\* One call of convert_user_time_to_moscow(time_str, tz_offset_hours).
Convert ==
    /\ ~conv.done
    /\ conv' = [conv EXCEPT !.result = ConvertUserTimeToMoscow(conv.time, conv.offset),
                            !.done = TRUE]
    /\ UNCHANGED <<started, loop, scheduler, lastCall, callers, pay, wallet, bcast, fired, db, phase, queue, bridge,
                   clock, push>>

SpecConvert == InitConvert /\ [][Convert]_vars

\* The number two decimal digits at positions i and i + 1 of r denote.
ReadTwo(r, i) == 10 * DigitVal(r[i]) + DigitVal(r[i + 1])

\* C8: for every local hour h in 0..23, minute m in 0..59 and offset o,
\* convert_user_time_to_moscow returns "HH:MM" with HH = (h - o) mod 24,
\* which lies in 0..23, MM = m, and (HH + o) mod 24 = h.
C8_TranslateWrapsAndRoundTrips ==
    conv.done =>
        /\ Len(conv.result) = 5
        /\ conv.result[3] = ":"
        /\ \A i \in {1, 2, 4, 5} : conv.result[i] \in DigitSet
        /\ ReadTwo(conv.result, 1) = (conv.hour - conv.offset) % 24
        /\ ReadTwo(conv.result, 1) \in 0..23
        /\ ReadTwo(conv.result, 4) = conv.minute
        /\ (ReadTwo(conv.result, 1) + conv.offset) % 24 = conv.hour

\* C8 witness: local 02:30 at offset +5 was translated to 21:30.
C8_Witness ==
    /\ conv.done
    /\ conv.hour = 2 /\ conv.minute = 30 /\ conv.offset = 5
    /\ conv.result = <<"2", "1", ":", "3", "0">>


(***************************************************************************)
(* Two concurrent callers of schedule_daily for one user, step by step,    *)
(* with the timer thread.  Every APScheduler call (get_job, remove_job,    *)
(* add_job, start, the timer's pass over the due jobs) takes the           *)
(* scheduler's own lock and is one step; PushScheduler adds no lock.       *)
(***************************************************************************)
CallerNames == {"A", "B"}

\* The two calls: schedule_daily(u, "08:00", a) and schedule_daily(u, "09:00", b).
CallerArgs(c, u) ==
    IF c = "A"
    THEN [pc |-> "call", user |-> u, time |-> T0800, cb |-> "a", seen |-> NoJob]
    ELSE [pc |-> "call", user |-> u, time |-> T0900, cb |-> "b", seen |-> NoJob]

\* The job a caller's schedule_daily adds.
NewJob(c) ==
    CronJob(callers[c].user, ParseTime(callers[c].time).hour,
            ParseTime(callers[c].time).minute, callers[c].cb)

InitConc ==
    /\ loop = FALSE
    /\ lastCall = NoCall
    /\ fired = [u \in Users |-> NoJob]
    /\ db = [u \in Users |-> NoRow]
    /\ phase = "none"
    /\ queue = <<>>
    /\ conv = NoConv
    /\ bridge = NoBridge
    /\ clock = NoClock
    /\ push = NoPush
    /\ pay = NoPay
    /\ wallet = NoWallet
    /\ bcast = NoBcast
    /\ started \in BOOLEAN
    /\ \E u \in Users :
          /\ callers = [c \in CallerNames |-> CallerArgs(c, u)]
          /\ LET s0 == IF started THEN SchedulerStart(NewScheduler) ELSE NewScheduler
             IN  scheduler \in {s0, ScheduleDaily(s0, u, T0700, "c").sch}

concRest == <<pay, wallet, bcast, started, loop, lastCall, fired, db, phase, queue, conv, bridge, clock, push>>

\* schedule_daily up to the get_job of remove(): lines 59-63 and 142-144.
Lookup(c) ==
    /\ callers[c].pc = "call"
    /\ IF ~ParseTime(callers[c].time).ok
       THEN callers' = [callers EXCEPT ![c].pc = "returned"]
       ELSE LET job == GetJob(scheduler, JobId(callers[c].user)) IN
            callers' = [callers EXCEPT ![c].seen = job,
                                       ![c].pc = IF job # NoJob THEN "remove" ELSE "add"]
    /\ UNCHANGED <<scheduler, concRest>>

\* remove_job of remove(), line 145: JobLookupError leaves schedule_daily
\* when the job seen is no longer there.
RemoveStep(c) ==
    /\ callers[c].pc = "remove"
    /\ IF RemoveJobRaises(scheduler, JobId(callers[c].user))
       THEN /\ callers' = [callers EXCEPT ![c].pc = "raised"]
            /\ UNCHANGED scheduler
       ELSE /\ callers' = [callers EXCEPT ![c].pc = "add"]
            /\ scheduler' = RemoveJob(scheduler, JobId(callers[c].user))
    /\ UNCHANGED concRest

\* CronTrigger and add_job, lines 67-69.
AddStep(c) ==
    /\ callers[c].pc = "add"
    /\ LET t == ParseTime(callers[c].time) IN
       IF ~FieldsInRange(t.hour, t.minute)
       THEN /\ callers' = [callers EXCEPT ![c].pc = "raised"]
            /\ UNCHANGED scheduler
       ELSE /\ callers' = [callers EXCEPT ![c].pc = "returned"]
            /\ scheduler' = AddJob(scheduler, JobId(callers[c].user), NewJob(c))
    /\ UNCHANGED concRest

\* The timer thread runs the job of a user that is due: only a running
\* scheduler fires, and only jobs of its store.
TimerFire(u) ==
    /\ scheduler.state = "running"
    /\ scheduler.jobs[JobId(u)] # NoJob
    /\ fired' = [fired EXCEPT ![u] = scheduler.jobs[JobId(u)]]
    /\ UNCHANGED <<started, loop, scheduler, lastCall, callers, pay, wallet, bcast, db, phase, queue, conv, bridge,
                   clock, push>>

NextConc ==
    \/ \E c \in CallerNames : Lookup(c)
    \/ \E c \in CallerNames : RemoveStep(c)
    \/ \E c \in CallerNames : AddStep(c)
    \/ \E u \in Users : TimerFire(u)
    \/ (~started /\ Start)

SpecConc == InitConc /\ [][NextConc]_vars

\* Both calls have ended, by returning or by raising.
BothEnded == \A c \in CallerNames : callers[c].pc \in {"returned", "raised"}

\* C2: two concurrent callers schedule_daily(u, "08:00", a) and
\* schedule_daily(u, "09:00", b) end, in every interleaving of their steps,
\* with exactly one job for u, that of one of the two calls.
C2_ConcurrentReplaceLeavesOne ==
    BothEnded =>
        LET u == callers["A"].user IN
        /\ JobCount(scheduler, u) = 1
        /\ JobsOf(scheduler, u) \subseteq {CronJob(u, 8, 0, "a"), CronJob(u, 9, 0, "b")}

\* C3: while schedule_daily replaces an existing job, the job it found and
\* the job it adds are never both in the registry, whatever the timer
\* thread and the other caller do in between.
C3_OldAndNewNeverBothLive ==
    \A c \in CallerNames :
        callers[c].seen # NoJob =>
            ~ ( /\ callers[c].seen \in JobsOf(scheduler, callers[c].user)
                /\ NewJob(c) \in JobsOf(scheduler, callers[c].user) )

\* C3 witness: the timer fired the old job, a caller then replaced it, and
\* the caller's new job is the one in the running store.
C3_Witness ==
    \E c \in CallerNames :
        /\ callers[c].seen = CronJob(callers[c].user, 7, 0, "c")
        /\ callers[c].pc = "returned"
        /\ fired[callers[c].user] = callers[c].seen
        /\ scheduler.state = "running"
        /\ scheduler.jobs[JobId(callers[c].user)] = NewJob(c)


(***************************************************************************)
(* The bot process: startup, rehydration of the registry from the users    *)
(* table, the settings handlers, restart.  A handler's synchronous section *)
(* (the database commit and the registry call) runs without interleaving   *)
(* on the event loop, so each handler is one step.                         *)
(***************************************************************************)
\* DEFAULT_PUSH_TIME = "10:00"
DEFAULT_PUSH_TIME == <<"1", "0", ":", "0", "0">>

\* The callback every handler and the rehydration bind: send_push_card.
PushCard == "send_push_card"

\* The strings that reach cb_set_time after "set_time:" (stored as they
\* come, and not only the keyboard's) and the offsets the timezone keyboard
\* sends, as far as the model draws them.
SetTimeInputs == {T0900, T2500, TAbCd}
TzInputs == {-5, 0}

\* A users row as the INSERT creates it: the column defaults of db.py
\* (last_activity_date defaults to date.today).
DefaultRow ==
    [exists |-> TRUE, push_enabled |-> TRUE, push_time |-> <<>>, tz_offset_hours |-> 0,
     last_card |-> "none", last_card_date |-> -1, last_activity_date |-> clock.day,
     draw_count |-> 0]

\* session.query(User).filter(User.id == user_id).first(), or User(id=user_id).
RowOrNew(u) == IF db[u].exists THEN db[u] ELSE DefaultRow

\* if not user.push_time: user.push_time = DEFAULT_PUSH_TIME
WithPushTime(row) ==
    IF row.push_time = <<>> THEN [row EXCEPT !.push_time = DEFAULT_PUSH_TIME] ELSE row

\* The permutations of a set of users: the orders query(User).all() may give.
Perms(S) ==
    {q \in [1..Cardinality(S) -> S] : \A i, j \in 1..Cardinality(S) : q[i] = q[j] => i = j}

InitApp ==
    /\ InitRegistry
    /\ callers = <<>>
    /\ conv = NoConv
    /\ bridge = NoBridge
    /\ clock = NoClock
    /\ push = NoPush
    /\ pay = NoPay
    /\ wallet = NoWallet
    /\ bcast = NoBcast
    /\ db = [u \in Users |-> NoRow]
    /\ phase = "boot"
    /\ queue = <<>>

appRest == <<lastCall, callers, pay, wallet, bcast, fired, conv, bridge, clock, push>>

\* main(): push_scheduler.configure(loop), before start_polling.
MainConfigure ==
    /\ phase = "boot"
    /\ phase' = "configured"
    /\ loop' = TRUE
    /\ UNCHANGED <<started, scheduler, db, queue, appRest>>

\* on_startup: push_scheduler.start().
OnStartupStart ==
    /\ phase = "configured"
    /\ phase' = "started"
    /\ IF ~started
       THEN scheduler' = SchedulerStart(scheduler) /\ started' = TRUE
       ELSE UNCHANGED <<scheduler, started>>
    /\ UNCHANGED <<loop, db, queue, appRest>>

\* reschedule_user_pushes: the users list is read, lines 32-40.
RehydrateBegin ==
    /\ phase = "started"
    /\ phase' = "rehydrating"
    /\ queue' \in Perms({u \in Users : db[u].exists})
    /\ UNCHANGED <<started, loop, scheduler, db, appRest>>

\* A pass of the loop that schedules whatever push_enabled says.
RehydrateStepAll ==
    /\ phase = "rehydrating"
    /\ queue # <<>>
    /\ LET u == Head(queue)
           time == IF db[u].push_time = <<>> THEN DEFAULT_PUSH_TIME ELSE db[u].push_time
           r == ScheduleDaily(scheduler, u, time, PushCard)
       IN  /\ scheduler' = r.sch
           /\ IF r.outcome = "raised"
              THEN phase' = "crashed" /\ queue' = queue
              ELSE phase' = phase /\ queue' = Tail(queue)
    /\ UNCHANGED <<started, loop, db, appRest>>

\* reschedule_user_pushes, one pass of the loop of lines 42-50.  A
\* ValueError of schedule_daily leaves the routine and on_startup.
RehydrateStep ==
    /\ phase = "rehydrating"
    /\ queue # <<>>
    /\ LET u == Head(queue)
           time == IF db[u].push_time = <<>> THEN DEFAULT_PUSH_TIME ELSE db[u].push_time
           r == ScheduleDaily(scheduler, u, time, PushCard)
       IN  IF db[u].push_enabled
           THEN /\ scheduler' = r.sch
                /\ IF r.outcome = "raised"
                   THEN phase' = "crashed" /\ queue' = queue
                   ELSE phase' = phase /\ queue' = Tail(queue)
           ELSE /\ scheduler' = Remove(scheduler, u)
                /\ phase' = phase
                /\ queue' = Tail(queue)
    /\ UNCHANGED <<started, loop, db, appRest>>

\* reschedule_user_pushes returns to on_startup.
RehydrateEnd ==
    /\ phase = "rehydrating"
    /\ queue = <<>>
    /\ phase' = "rehydrated"
    /\ UNCHANGED <<started, loop, scheduler, db, queue, appRest>>

\* A dispatcher that polls as soon as the registry is started.
BeginPollingEarly ==
    /\ phase \in {"started", "rehydrated"}
    /\ phase' = "polling"
    /\ UNCHANGED <<started, loop, scheduler, db, queue, appRest>>

\* on_startup returns and the dispatcher starts polling.
BeginPolling ==
    /\ phase = "rehydrated"
    /\ phase' = "polling"
    /\ UNCHANGED <<started, loop, scheduler, db, queue, appRest>>

\* cmd_start: _get_or_create_user, then the job when pushes are enabled.
CmdStart(u) ==
    /\ phase = "polling"
    /\ LET row == WithPushTime(RowOrNew(u)) IN
       /\ db' = [db EXCEPT ![u] = row]
       /\ scheduler' =
              IF row.push_enabled
              THEN ScheduleDailyWithOffset(scheduler, u, row.push_time,
                                           row.tz_offset_hours, PushCard).sch
              ELSE scheduler
    /\ UNCHANGED <<started, loop, phase, queue, appRest>>

\* cb_set_time: the row is committed; reading user.tz_offset_hours on the
\* expired instance after the session block has closed raises
\* DetachedInstanceError, which the handler's except clause logs, so the
\* registry call of lines 546-551 is not reached.
CbSetTime(u, s) ==
    /\ phase = "polling"
    /\ db' = [db EXCEPT ![u] = [RowOrNew(u) EXCEPT !.push_time = s, !.push_enabled = TRUE]]
    /\ UNCHANGED <<started, loop, scheduler, phase, queue, appRest>>

\* cb_push_off
CbPushOff(u) ==
    /\ phase = "polling"
    /\ db' = IF db[u].exists THEN [db EXCEPT ![u].push_enabled = FALSE] ELSE db
    /\ scheduler' = Remove(scheduler, u)
    /\ UNCHANGED <<started, loop, phase, queue, appRest>>

\* cb_push_on
CbPushOn(u) ==
    /\ phase = "polling"
    /\ LET row == WithPushTime([RowOrNew(u) EXCEPT !.push_enabled = TRUE]) IN
       /\ db' = [db EXCEPT ![u] = row]
       /\ scheduler' = ScheduleDailyWithOffset(scheduler, u, row.push_time,
                                               row.tz_offset_hours, PushCard).sch
    /\ UNCHANGED <<started, loop, phase, queue, appRest>>

\* cb_set_tz: the job is scheduled whatever push_enabled says.
CbSetTz(u, off) ==
    /\ phase = "polling"
    /\ LET row == WithPushTime([RowOrNew(u) EXCEPT !.tz_offset_hours = off]) IN
       /\ db' = [db EXCEPT ![u] = row]
       /\ scheduler' = ScheduleDailyWithOffset(scheduler, u, row.push_time, off, PushCard).sch
    /\ UNCHANGED <<started, loop, phase, queue, appRest>>

\* The pairs (hour the user sent, hour in Moscow at that moment) that reach
\* msg_tz_hour, as far as the model draws them.
MsgHourInputs == {<<19, 0>>, <<12, 12>>}

\* An offset that is the plain difference of the two hours.
TzOffsetUnnormalised(hour, msk_hour) == hour - msk_hour

\* msg_tz_hour: the offset from the user's hour and Moscow's hour,
\* normalised into -12..11.
TzOffsetFromHour(hour, msk_hour) == PyMod((hour - msk_hour) + 12, 24) - 12

\* msg_tz_hour: the offset is stored and the job is scheduled whatever
\* push_enabled says.
MsgTzHour(u, hour, msk_hour) ==
    /\ phase = "polling"
    /\ hour \in 0..23
    /\ LET off == TzOffsetFromHour(hour, msk_hour)
           row == WithPushTime([RowOrNew(u) EXCEPT !.tz_offset_hours = off])
       IN  /\ db' = [db EXCEPT ![u] = row]
           /\ scheduler' = ScheduleDailyWithOffset(scheduler, u, row.push_time, off,
                                                   PushCard).sch
    /\ UNCHANGED <<started, loop, phase, queue, appRest>>

\* cb_set_tz_moscow: offset 0, and the job is scheduled whatever
\* push_enabled says.
CbSetTzMoscow(u) ==
    /\ phase = "polling"
    /\ LET row == WithPushTime([RowOrNew(u) EXCEPT !.tz_offset_hours = 0]) IN
       /\ db' = [db EXCEPT ![u] = row]
       /\ scheduler' = ScheduleDailyWithOffset(scheduler, u, row.push_time, 0, PushCard).sch
    /\ UNCHANGED <<started, loop, phase, queue, appRest>>

\* The process ends (on_shutdown) and a new one is started: the registry is
\* constructed anew, the users table persists.
Restart ==
    /\ phase = "polling"
    /\ phase' = "boot"
    /\ scheduler' = NewScheduler
    /\ started' = FALSE
    /\ loop' = FALSE
    /\ UNCHANGED <<db, queue, appRest>>

NextApp ==
    \/ MainConfigure
    \/ OnStartupStart
    \/ RehydrateBegin
    \/ RehydrateStep
    \/ RehydrateEnd
    \/ BeginPolling
    \/ \E u \in Users : CmdStart(u)
    \/ \E u \in Users, s \in SetTimeInputs : CbSetTime(u, s)
    \/ \E u \in Users : CbPushOff(u)
    \/ \E u \in Users : CbPushOn(u)
    \/ \E u \in Users, off \in TzInputs : CbSetTz(u, off)
    \/ \E u \in Users, p \in MsgHourInputs : MsgTzHour(u, p[1], p[2])
    \/ \E u \in Users : CbSetTzMoscow(u)
    \/ Restart

SpecApp == InitApp /\ [][NextApp]_vars

\* The hour and minute the stored well-formed times denote.
StoredHour(s) == CASE s = DEFAULT_PUSH_TIME -> 10 [] s = T0900 -> 9 [] s = T0800 -> 8

StoredMinute(s) == CASE s = DEFAULT_PUSH_TIME -> 0 [] s = T0900 -> 0 [] s = T0800 -> 0

WellFormedStored == {DEFAULT_PUSH_TIME, T0900, T0800}

\* C10: after the startup rehydration completes, every persisted user with
\* notifications enabled and a well-formed stored time has exactly one job,
\* firing at translate(stored local time, stored offset).
C10_RehydrationUsesStoredOffset ==
    phase = "rehydrated" =>
        \A u \in Users :
            (db[u].exists /\ db[u].push_enabled /\ db[u].push_time \in WellFormedStored)
                => /\ JobCount(scheduler, u) = 1
                   /\ JobsOf(scheduler, u) =
                          {CronJob(u, (StoredHour(db[u].push_time) - db[u].tz_offset_hours) % 24,
                                   StoredMinute(db[u].push_time), PushCard)}

(***************************************************************************)
(* Claims about the startup sequence and rehydration.                      *)
(***************************************************************************)
\* C11: rehydration over profiles of which one enabled user has a malformed
\* stored time ends with no exception leaving the routine, a job for every
\* well-formed enabled user wherever it stands in the iteration order, and
\* no job for the malformed user.
C11_MalformedUserIsolated ==
    /\ phase # "crashed"
    /\ phase = "rehydrated" =>
           \A u \in Users :
               (db[u].exists /\ db[u].push_enabled)
                   => JobCount(scheduler, u) = (IF WellFormed(db[u].push_time) THEN 1 ELSE 0)

\* C12: after the startup rehydration completes, no persisted user whose
\* notifications flag is disabled has a job in the registry.
C12_DisabledUserHasNoJob ==
    phase = "rehydrated" =>
        \A u \in Users :
            (db[u].exists /\ ~db[u].push_enabled) => JobCount(scheduler, u) = 0

\* C12 witness: rehydration completed over a table with a disabled user and
\* an enabled one, and the enabled one has its job.
C12_Witness ==
    /\ phase = "rehydrated"
    /\ \E u, v \in Users :
          /\ db[u].exists /\ ~db[u].push_enabled
          /\ JobCount(scheduler, u) = 0
          /\ db[v].exists /\ db[v].push_enabled
          /\ JobCount(scheduler, v) = 1

\* C13: in the startup sequence the registry is configured with the loop
\* and started before rehydration begins, rehydration runs once in a
\* process, and it has completed before any chat event is handled.
C13_StartupOrder ==
    [][ /\ (phase' = "started" /\ phase # "started")
            => (phase = "configured" /\ loop /\ started' /\ scheduler'.state = "running")
        /\ (phase' = "rehydrating" /\ phase # "rehydrating")
            => (phase = "started" /\ loop /\ started /\ scheduler.state = "running")
        /\ (phase' = "rehydrated" /\ phase # "rehydrated")
            => (phase = "rehydrating" /\ queue = <<>>)
        /\ (phase' = "polling" /\ phase # "polling") => phase = "rehydrated"
        /\ phase = "polling" => phase' \in {"polling", "boot"}
        /\ db' # db => (phase = "polling" /\ phase' = "polling")
        /\ (scheduler' # scheduler /\ phase' = phase /\ phase # "rehydrating")
            => phase = "polling" ]_vars

\* C13 witness: the bot is polling; one user's job is the one rehydration
\* built in this process (10:00 for a stored offset of -5), another user's
\* job is the one a handler built after it (15:00).
C13_Witness ==
    /\ phase = "polling"
    /\ loop /\ started
    /\ \E u, v \in Users :
          /\ db[u].tz_offset_hours = -5 /\ db[u].push_time = DEFAULT_PUSH_TIME
          /\ JobsOf(scheduler, u) = {CronJob(u, 10, 0, PushCard)}
          /\ db[v].tz_offset_hours = -5 /\ db[v].push_time = DEFAULT_PUSH_TIME
          /\ JobsOf(scheduler, v) = {CronJob(v, 15, 0, PushCard)}


(***************************************************************************)
(* The callback bridge: a job fires on the scheduler's side, the runner of *)
(* _wrap_callback calls the action there and hands a coroutine to the main *)
(* event loop, which runs it later.  The registry's own calls (configure,  *)
(* start, shutdown, schedule_daily) come from the main thread in between.  *)
(***************************************************************************)
\* The actions a caller can register, by what calling them does: raise,
\* return a coroutine that completes, return a coroutine that raises when
\* the loop runs it.
BridgeCallbacks == {"sync_raises", "async_ok", "async_raises"}

\* asyncio.iscoroutine(result)
IsCoroutine(cb) == cb \in {"async_ok", "async_raises"}

BridgeTimeStrs == {T0800}

bridgeRest == <<callers, pay, wallet, bcast, db, phase, queue, conv, clock, push>>

\* schedule_daily called from the main thread.
BridgeSchedule(u, s, cb) ==
    LET r == ScheduleDaily(scheduler, u, s, cb) IN
    /\ scheduler' = r.sch
    /\ lastCall' = Call("schedule_daily", u, s, 0, 0, cb, r.outcome, NoJob)
    /\ UNCHANGED <<started, loop, fired, bridge, bridgeRest>>

\* A remove that also abandons the firing in flight.
BridgeRemoveCancels(u) ==
    /\ scheduler' = Remove(scheduler, u)
    /\ lastCall' = Call("remove", u, <<>>, 0, 0, "none", "returned", GetJob(scheduler, JobId(u)))
    /\ bridge' = [bridge EXCEPT !.run[u] = NoRun]
    /\ UNCHANGED <<started, loop, fired, bridgeRest>>

\* remove called from the main thread: the registry entry goes, a runner
\* already submitted and a coroutine already queued are not touched.
BridgeRemove(u) ==
    /\ scheduler' = Remove(scheduler, u)
    /\ lastCall' = Call("remove", u, <<>>, 0, 0, "none", "returned", GetJob(scheduler, JobId(u)))
    /\ UNCHANGED <<started, loop, fired, bridge, bridgeRest>>

\* A firing that runs one fixed callback, whatever job is registered.
FireFixedCallback(u) ==
    /\ scheduler.state = "running"
    /\ scheduler.jobs[JobId(u)] # NoJob
    /\ bridge.run[u].pc \in {"idle", "returned"}
    /\ bridge.run[u].co # "queued"
    /\ bridge' = [bridge EXCEPT !.run[u] = [NoRun EXCEPT !.pc = "runner", !.cb = "async_ok"]]
    /\ UNCHANGED <<started, loop, scheduler, lastCall, fired, bridgeRest>>

\* A scheduler that runs the jobs of its table whether it is running or not.
FireAnyState(u) ==
    /\ GetJob(scheduler, JobId(u)) # NoJob
    /\ bridge.run[u].pc \in {"idle", "returned"}
    /\ bridge.run[u].co # "queued"
    /\ bridge' = [bridge EXCEPT !.run[u] =
                      [NoRun EXCEPT !.pc = "runner", !.cb = GetJob(scheduler, JobId(u)).cb]]
    /\ UNCHANGED <<started, loop, scheduler, lastCall, fired, bridgeRest>>

\* The running scheduler finds the user's job due and submits its runner;
\* one instance of a job runs at a time (max_instances = 1).
Fire(u) ==
    /\ scheduler.state = "running"
    /\ scheduler.jobs[JobId(u)] # NoJob
    /\ bridge.run[u].pc \in {"idle", "returned"}
    /\ bridge.run[u].co # "queued"
    /\ bridge' = [bridge EXCEPT !.run[u] =
                      [NoRun EXCEPT !.pc = "runner", !.cb = scheduler.jobs[JobId(u)].cb]]
    /\ UNCHANGED <<started, loop, scheduler, lastCall, fired, bridgeRest>>

\* A runner that runs a coroutine to its end where it stands.
RunnerCallInPlace(u) ==
    /\ bridge.run[u].pc = "runner"
    /\ bridge' = [bridge EXCEPT !.run[u] =
                      [@ EXCEPT !.pc = "returned", !.onThread = TRUE,
                                !.logged = (@ \/ bridge.run[u].cb \in {"sync_raises", "async_raises"}),
                                !.stopped = ~started]]
    /\ UNCHANGED <<started, loop, scheduler, lastCall, fired, bridgeRest>>

\* runner, lines 46-48 and 52-53: callback(*args, **kwargs) on the firing
\* thread.  An action that raises has run there and is logged; a coroutine
\* function only builds its coroutine.
RunnerCall(u) ==
    /\ bridge.run[u].pc = "runner"
    /\ bridge' = [bridge EXCEPT !.run[u] =
                      CASE bridge.run[u].cb = "sync_raises" ->
                               [@ EXCEPT !.pc = "returned", !.onThread = TRUE,
                                         !.logged = TRUE, !.stopped = ~started]
                        [] OTHER -> [@ EXCEPT !.pc = "handoff"]]
    /\ UNCHANGED <<started, loop, scheduler, lastCall, fired, bridgeRest>>

\* A runner without the try/except around the handoff.
RunnerHandoffNoCatch(u) ==
    /\ bridge.run[u].pc = "handoff"
    /\ bridge' = [bridge EXCEPT !.run[u] =
                      IF ~loop
                      THEN [@ EXCEPT !.pc = "returned", !.seen = "unset",
                                     !.escaped = TRUE, !.stopped = ~started]
                      ELSE IF bridge.closed
                      THEN [@ EXCEPT !.pc = "returned", !.seen = "closed",
                                     !.escaped = TRUE, !.stopped = ~started]
                      ELSE [@ EXCEPT !.pc = "returned", !.seen = "open",
                                     !.handed = @ + 1, !.co = "queued",
                                     !.stopped = ~started]]
    /\ UNCHANGED <<started, loop, scheduler, lastCall, fired, bridgeRest>>

\* runner, lines 49-53: RuntimeError when no loop is configured;
\* run_coroutine_threadsafe raises RuntimeError on a closed loop; both are
\* logged by the except clause.  Otherwise the coroutine is queued on the
\* loop and the runner returns, the returned future unread.
RunnerHandoff(u) ==
    /\ bridge.run[u].pc = "handoff"
    /\ bridge' = [bridge EXCEPT !.run[u] =
                      IF ~loop
                      THEN [@ EXCEPT !.pc = "returned", !.seen = "unset",
                                     !.logged = TRUE, !.stopped = ~started]
                      ELSE IF bridge.closed
                      THEN [@ EXCEPT !.pc = "returned", !.seen = "closed",
                                     !.logged = TRUE, !.stopped = ~started]
                      ELSE [@ EXCEPT !.pc = "returned", !.seen = "open",
                                     !.handed = @ + 1, !.co = "queued",
                                     !.stopped = ~started]]
    /\ UNCHANGED <<started, loop, scheduler, lastCall, fired, bridgeRest>>

\* The main loop runs a queued coroutine to its end.  An exception of the
\* coroutine is set on the future run_coroutine_threadsafe returned, which
\* nobody holds.
LoopRun(u) ==
    /\ ~bridge.closed
    /\ bridge.run[u].co = "queued"
    /\ bridge' = [bridge EXCEPT !.run[u].co =
                      IF bridge.run[u].cb = "async_raises" THEN "failed" ELSE "done"]
    /\ UNCHANGED <<started, loop, scheduler, lastCall, fired, bridgeRest>>

\* After on_shutdown, asyncio.run(main()) closes the loop: the coroutines
\* still queued are never run.
LoopClose ==
    /\ loop
    /\ ~started
    /\ ~bridge.closed
    /\ bridge' = [bridge EXCEPT !.closed = TRUE,
                                !.run = [u \in Users |->
                                            IF bridge.run[u].co = "queued"
                                            THEN [bridge.run[u] EXCEPT !.co = "dropped"]
                                            ELSE bridge.run[u]]]
    /\ UNCHANGED <<started, loop, scheduler, lastCall, fired, bridgeRest>>

NextBridge ==
    \/ Configure
    \/ Start
    \/ Shutdown
    \/ \E u \in Users, s \in BridgeTimeStrs, cb \in BridgeCallbacks : BridgeSchedule(u, s, cb)
    \/ \E u \in Users : BridgeRemove(u)
    \/ \E u \in Users : Fire(u)
    \/ \E u \in Users : RunnerCall(u)
    \/ \E u \in Users : RunnerHandoff(u)
    \/ \E u \in Users : LoopRun(u)
    \/ LoopClose

SpecBridge == Init /\ [][NextBridge]_vars

\* C14: when a job with an asynchronous action fires and a loop is
\* configured, the runner hands the coroutine to the loop once and returns
\* with the coroutine still queued; the action's body runs on the loop only.
C14_HandoffOnceWithoutWaiting ==
    [][ \A u \in Users :
          LET r == bridge.run[u]
              q == bridge'.run[u]
          IN  /\ IsCoroutine(q.cb) => ~q.onThread
              /\ q.handed <= 1
              /\ (r.pc = "handoff" /\ q.pc = "returned" /\ q.seen = "open")
                  => (q.handed = 1 /\ q.co = "queued" /\ ~q.logged /\ ~q.escaped)
              /\ q.co \in {"queued", "done", "failed"} => (q.handed = 1 /\ q.seen = "open")
              /\ (r.co # q.co /\ q.co \in {"done", "failed"})
                  => (r.co = "queued" /\ r.pc = "returned") ]_vars

\* C14 witness: the runner of an asynchronous action has returned after one
\* handoff, while its coroutine is still waiting on the loop.
C14_Witness ==
    \E u \in Users :
        /\ bridge.run[u].cb = "async_ok"
        /\ bridge.run[u].pc = "returned"
        /\ bridge.run[u].handed = 1
        /\ bridge.run[u].co = "queued"
        /\ loop

\* C15: every exception of a registered action, raised by the call, by the
\* handoff or by the coroutine on the loop, is caught and logged; the runner
\* returns normally, and the registry and its job table stay as they are.
C15_EveryFailureCaughtAndLogged ==
    [][ /\ \A u \in Users :
             LET q == bridge'.run[u] IN
             /\ ~q.escaped
             /\ (q.pc = "returned" /\ q.cb = "sync_raises") => q.logged
             /\ q.seen \in {"unset", "closed"} => q.logged
             /\ q.co = "failed" => q.logged
        /\ bridge' # bridge => (scheduler' = scheduler /\ started' = started) ]_vars

\* C16: when a job with an asynchronous action fires before configure(loop),
\* the runner catches the error and logs it: nothing leaves the runner, the
\* coroutine reaches no loop, the registry stays as it is and the job stays
\* registered.
C16_UnconfiguredFireIsCaught ==
    [][ \A u \in Users :
          LET r == bridge.run[u]
              q == bridge'.run[u]
          IN  /\ (r.pc = "handoff" /\ ~loop /\ q # r)
                  => /\ q.pc = "returned" /\ q.seen = "unset"
                     /\ q.logged /\ ~q.escaped
                     /\ scheduler' = scheduler /\ started' = started
              /\ q.seen = "unset"
                  => (q.handed = 0 /\ q.co = "none" /\ ~q.onThread /\ ~q.escaped) ]_vars

\* C16 witness: the job of an asynchronous action fired with no loop
\* configured; its runner has returned after logging, the registry is
\* started and the job is still in the running store.
C16_Witness ==
    \E u \in Users :
        /\ ~loop
        /\ IsCoroutine(bridge.run[u].cb)
        /\ bridge.run[u].pc = "returned"
        /\ bridge.run[u].seen = "unset"
        /\ bridge.run[u].logged
        /\ started
        /\ scheduler.jobs[JobId(u)] # NoJob
        /\ scheduler.jobs[JobId(u)].cb = bridge.run[u].cb

\* C17: a schedule_daily call made before configure(loop) and before
\* start() registers the job, so that has_job(u) is true right after it,
\* and start() puts every registered job, at its hour and minute, in the
\* running store, from which it fires.
C17_EarlyScheduleRegisters ==
    [][ /\ ( /\ lastCall'.op = "schedule_daily"
             /\ lastCall'.outcome = "scheduled"
             /\ ~started /\ ~loop )
            => /\ HasJob(scheduler', lastCall'.user)
               /\ GetJob(scheduler', JobId(lastCall'.user)) =
                      CronJob(lastCall'.user, ParseTime(lastCall'.time).hour,
                              ParseTime(lastCall'.time).minute, lastCall'.cb)
        /\ (lastCall'.op = "start" /\ ~started)
            => /\ scheduler'.state = "running"
               /\ \A u \in Users :
                      HasJob(scheduler, u)
                          => scheduler'.jobs[JobId(u)] = GetJob(scheduler, JobId(u)) ]_vars

\* C17 witness: no loop is configured, start() was the last registry call
\* and did start the scheduler, and the 08:00 job registered before it is
\* in the running store and has fired.
C17_Witness ==
    /\ ~loop
    /\ lastCall.op = "start"
    /\ lastCall.outcome = "returned"
    /\ \E u \in Users :
          /\ bridge.run[u].pc = "runner"
          /\ scheduler.jobs[JobId(u)] = CronJob(u, 8, 0, bridge.run[u].cb)

\* C19: a firing begins only while the registry is started, so none begins
\* between a shutdown() and the next start(); a firing in flight across the
\* shutdown ends with its coroutine handed over (then run or dropped) or
\* with its error logged, and no exception leaves the runner.
C19_NoFiringAfterShutdown ==
    [][ \A u \in Users :
          LET r == bridge.run[u]
              q == bridge'.run[u]
          IN  /\ (q.pc = "runner" /\ r.pc # "runner")
                  => (started /\ scheduler.state = "running")
              /\ ~q.escaped
              /\ (q.stopped /\ q.co = "none") => q.logged ]_vars

\* C19 witness: two runners were in flight when the registry was shut down;
\* both returned afterwards, one coroutine ran to its end on the loop, the
\* other was dropped when the loop closed.
C19_Witness ==
    /\ ~started
    /\ \E u, v \in Users :
          /\ bridge.run[u].stopped /\ bridge.run[u].co = "done"
          /\ bridge.run[v].stopped /\ bridge.run[v].co = "dropped"

\* ---------------------------------------------------------------------
\* Two registry calls on one user racing: remove(u) against remove(u), and
\* remove(u) against schedule_daily(u, "09:00", b).  Each scheduler call
\* holds the scheduler's lock for its own duration only, so a step below is
\* one scheduler call.
\* ---------------------------------------------------------------------

\* The ways caller B is called.
RaceOps == {"remove", "schedule_daily"}

\* Caller A is remove(u); caller B is remove(u) or schedule_daily(u, "09:00", b).
RaceArgs(c, u, op) ==
    IF c = "A" \/ op = "remove"
    THEN [pc |-> "rcall", op |-> "remove", user |-> u, time |-> T0900, cb |-> "b",
          seen |-> NoJob]
    ELSE [pc |-> "call", op |-> op, user |-> u, time |-> T0900, cb |-> "b", seen |-> NoJob]

InitRace ==
    /\ loop = FALSE
    /\ lastCall = NoCall
    /\ fired = [u \in Users |-> NoJob]
    /\ db = [u \in Users |-> NoRow]
    /\ phase = "none"
    /\ queue = <<>>
    /\ conv = NoConv
    /\ bridge = NoBridge
    /\ clock = NoClock
    /\ push = NoPush
    /\ pay = NoPay
    /\ wallet = NoWallet
    /\ bcast = NoBcast
    /\ started \in BOOLEAN
    /\ \E u \in Users, op \in RaceOps :
          /\ callers = [c \in CallerNames |-> RaceArgs(c, u, op)]
          /\ LET s0 == IF started THEN SchedulerStart(NewScheduler) ELSE NewScheduler
             IN  scheduler \in {s0, ScheduleDaily(s0, u, T0700, "c").sch}

\* remove(): the get_job and its test, lines 142-144.
RemoveLookup(c) ==
    /\ callers[c].pc = "rcall"
    /\ LET job == GetJob(scheduler, JobId(callers[c].user)) IN
       callers' = [callers EXCEPT ![c].seen = job,
                                  ![c].pc = IF job # NoJob THEN "rremove" ELSE "returned"]
    /\ UNCHANGED <<scheduler, concRest>>

\* remove(): the remove_job of line 145, which raises JobLookupError when
\* the job seen at line 143 is no longer in the registry.
RemoveDrop(c) ==
    /\ callers[c].pc = "rremove"
    /\ IF RemoveJobRaises(scheduler, JobId(callers[c].user))
       THEN /\ callers' = [callers EXCEPT ![c].pc = "raised"]
            /\ UNCHANGED scheduler
       ELSE /\ callers' = [callers EXCEPT ![c].pc = "returned"]
            /\ scheduler' = RemoveJob(scheduler, JobId(callers[c].user))
    /\ UNCHANGED concRest

NextRace ==
    \/ \E c \in CallerNames : RemoveLookup(c)
    \/ \E c \in CallerNames : RemoveDrop(c)
    \/ \E c \in CallerNames : Lookup(c)
    \/ \E c \in CallerNames : RemoveStep(c)
    \/ \E c \in CallerNames : AddStep(c)
    \/ \E u \in Users : TimerFire(u)
    \/ (~started /\ Start)

SpecRace == InitRace /\ [][NextRace]_vars

\* The registry contents the two serial orders of the racing calls leave:
\* no job after remove;remove and after schedule_daily;remove, the new job
\* after remove;schedule_daily.
SerialOutcomes(u) ==
    IF callers["B"].op = "remove"
    THEN {{}}
    ELSE {{}, {CronJob(u, 9, 0, "b")}}

\* C21: two concurrent registry calls on the same user, remove against
\* remove or remove against schedule_daily, both end without raising, and
\* the registry then holds what one of the two serial orders would leave:
\* at most one job for the user, and none but the job schedule_daily adds.
C21_ConcurrentCallsSerialise ==
    BothEnded =>
        LET u == callers["A"].user IN
        /\ \A c \in CallerNames : callers[c].pc = "returned"
        /\ JobCount(scheduler, u) <= 1
        /\ JobsOf(scheduler, u) \in SerialOutcomes(u)

\* ---------------------------------------------------------------------
\* has_job.
\* ---------------------------------------------------------------------

\* The operations that register a job.
ScheduleOps == {"schedule_daily", "schedule_daily_with_offset", "schedule_every_n_days"}

\* C22: has_job(u) is true exactly when the registry holds a job for u.  It
\* is false before anything was scheduled, becomes true only by a schedule
\* call for u that registered a job, is true after every such call, is
\* false after remove(u), and no schedule or remove call for one user
\* changes it for another.
C22_HasJobTracksRegistry ==
    /\ \A u \in Users : ~HasJob(scheduler, u)
    /\ [][ /\ \A u \in Users : HasJob(scheduler', u) <=> JobsOf(scheduler', u) # {}
           /\ \A u \in Users :
                 (HasJob(scheduler', u) /\ ~HasJob(scheduler, u)) =>
                     /\ lastCall'.user = u
                     /\ lastCall'.op \in ScheduleOps
                     /\ lastCall'.outcome = "scheduled"
           /\ (lastCall'.op \in ScheduleOps /\ lastCall'.outcome = "scheduled") =>
                 HasJob(scheduler', lastCall'.user)
           /\ lastCall'.op = "remove" => ~HasJob(scheduler', lastCall'.user)
           /\ lastCall'.op \in ScheduleOps \cup {"remove"} =>
                 \A v \in Users \ {lastCall'.user} :
                     HasJob(scheduler', v) <=> HasJob(scheduler, v) ]_vars

\* C22 witness: on a registry not yet started, remove(u) was called for a
\* user that had a job: has_job is now false for u and still true for
\* another user whose job waits for start.
C22_Witness ==
    /\ scheduler.state = "stopped"
    /\ lastCall.op = "remove"
    /\ lastCall.before # NoJob
    /\ ~HasJob(scheduler, lastCall.user)
    /\ \E v \in Users : v # lastCall.user /\ HasJob(scheduler, v)

\* ---------------------------------------------------------------------
\* The daily trigger against the clock.  schedule_daily builds
\* CronTrigger(hour=hour, minute=minute) and passes no timezone: the
\* trigger then computes its fire times in the local zone of the process,
\* not in the zone the scheduler was constructed with.  The timer thread
\* is taken to wake on time, within the job's misfire grace.
\* ---------------------------------------------------------------------

\* The hours of a day, in the reference zone, at which the clock stops: the
\* start of the day, the hour the jobs are configured for, and the hour
\* three later.
ClockHours == <<0, 8, 11>>

\* The offset of the process's local zone from the reference zone, in
\* hours: the reference zone itself, or UTC, three hours behind it.
ServerZones == {0, -3}

ClockTimeStrs == {T0800}

\* The hour of the reference zone at which the trigger of a job fires: the
\* trigger's hour is an hour of the local zone.
RefHour(job) == PyMod(job.hour - clock.zone, 24)

\* The job of u is due now: it is in the running store, its trigger's time
\* is the clock's, and it has not run, nor was it registered, since.
Due(u) ==
    /\ scheduler.state = "running"
    /\ scheduler.jobs[JobId(u)] # NoJob
    /\ RefHour(scheduler.jobs[JobId(u)]) = clock.hour
    /\ scheduler.jobs[JobId(u)].minute = 0
    /\ ~clock.done[u]

InitClock ==
    /\ started = TRUE
    /\ loop = TRUE
    /\ scheduler = SchedulerStart(NewScheduler)
    /\ lastCall = NoCall
    /\ callers = [c \in {} |-> NoJob]
    /\ fired = [u \in Users |-> NoJob]
    /\ db = [u \in Users |-> NoRow]
    /\ phase = "none"
    /\ queue = <<>>
    /\ conv = NoConv
    /\ bridge = NoBridge
    /\ push = NoPush
    /\ pay = NoPay
    /\ wallet = NoWallet
    /\ bcast = NoBcast
    /\ \E z \in ServerZones : clock = [NoClock EXCEPT !.zone = z]

clockRest == <<started, loop, callers, pay, wallet, bcast, db, phase, queue, conv, bridge, push>>

\* schedule_daily while the clock runs.
ClockSchedule(u, s, cb) ==
    LET r == ScheduleDaily(scheduler, u, s, cb) IN
    /\ scheduler' = r.sch
    /\ lastCall' = Call("schedule_daily", u, s, 0, 0, cb, r.outcome, GetJob(scheduler, JobId(u)))
    /\ clock' = [clock EXCEPT !.done[u] = TRUE, !.whole[u] = FALSE]
    /\ UNCHANGED <<fired, clockRest>>

\* remove while the clock runs.
ClockRemove(u) ==
    /\ scheduler' = Remove(scheduler, u)
    /\ lastCall' = Call("remove", u, <<>>, 0, 0, "none", "returned", GetJob(scheduler, JobId(u)))
    /\ clock' = [clock EXCEPT !.whole[u] = FALSE]
    /\ UNCHANGED <<fired, clockRest>>

\* The timer thread runs a job that is due; the trigger's next fire time is
\* the same time on the following day.
ClockFire(u) ==
    /\ Due(u)
    /\ fired' = [fired EXCEPT ![u] = scheduler.jobs[JobId(u)]]
    /\ clock' = [clock EXCEPT !.count[u] = @ + 1, !.done[u] = TRUE, !.at[u] = clock.hour]
    /\ UNCHANGED <<scheduler, lastCall, clockRest>>

\* Time passes to the next stop of the clock, once every due job has run.
Tick ==
    /\ \A u \in Users : ~Due(u)
    /\ \E i \in 1..Len(ClockHours) :
          /\ ClockHours[i] = clock.hour
          /\ IF i < Len(ClockHours)
             THEN clock' = [clock EXCEPT !.hour = ClockHours[i + 1],
                                         !.done = [u \in Users |-> FALSE]]
             ELSE /\ clock.day < MaxDay
                  /\ clock' = [clock EXCEPT
                                  !.day = @ + 1,
                                  !.hour = ClockHours[1],
                                  !.done = [u \in Users |-> FALSE],
                                  !.count = [u \in Users |-> 0],
                                  !.whole = [u \in Users |-> scheduler.jobs[JobId(u)] # NoJob]]
    /\ UNCHANGED <<scheduler, lastCall, fired, clockRest>>

NextClock ==
    \/ \E u \in Users, s \in ClockTimeStrs, cb \in Callbacks : ClockSchedule(u, s, cb)
    \/ \E u \in Users : ClockRemove(u)
    \/ \E u \in Users : ClockFire(u)
    \/ Tick

SpecClock == InitClock /\ [][NextClock]_vars

\* C23: while a job stays registered on a started registry it fires only at
\* its configured hour and minute of the reference zone, at most once on
\* any date, it stays registered after firing, and a date through which it
\* was registered unchanged does not end without its firing.
C23_FiresOncePerDayAtConfiguredTime ==
    [][ /\ \A u \in Users :
              clock'.count[u] = clock.count[u] + 1 =>
                  /\ scheduler.jobs[JobId(u)].hour = clock.hour
                  /\ scheduler.jobs[JobId(u)].minute = 0
                  /\ clock'.count[u] <= 1
                  /\ scheduler' = scheduler
        /\ clock'.day = clock.day + 1 =>
              \A u \in Users : clock.whole[u] => clock.count[u] = 1 ]_vars

\* ---------------------------------------------------------------------
\* Removal and replacement against a firing in flight.
\* ---------------------------------------------------------------------

\* A firing of u's job begins in this step.
FireBegins(u) == bridge'.run[u].pc = "runner" /\ bridge.run[u].pc # "runner"

\* This step is a registry call of the given operation.
CallStep(op) ==
    /\ lastCall'.op = op
    /\ lastCall' # lastCall \/ scheduler' # scheduler

\* C24: remove(u) leaves no job of u in the registry, and a job of u comes
\* back only by a later schedule call for u; a firing of u begins only
\* while a job of u is in the running registry, so none begins between the
\* two.  The remove leaves a firing already in flight as it is.
C24_NoNewFiringAfterRemove ==
    [][ /\ CallStep("remove") =>
              /\ JobCount(scheduler', lastCall'.user) = 0
              /\ bridge' = bridge
        /\ \A u \in Users :
              /\ FireBegins(u) =>
                    /\ scheduler.state = "running"
                    /\ scheduler.jobs[JobId(u)] # NoJob
                    /\ scheduler' = scheduler
              /\ (JobCount(scheduler', u) > 0 /\ JobCount(scheduler, u) = 0) =>
                    /\ lastCall'.op = "schedule_daily"
                    /\ lastCall'.user = u
                    /\ lastCall'.outcome = "scheduled" ]_vars

\* C24 witness: remove(u) took a job out of the registry while its firing
\* was in flight; the job is gone and the runner is still on its way to
\* hand the coroutine to the loop.
C24_Witness ==
    /\ lastCall.op = "remove"
    /\ lastCall.before # NoJob
    /\ JobCount(scheduler, lastCall.user) = 0
    /\ bridge.run[lastCall.user].pc = "handoff"
    /\ bridge.run[lastCall.user].cb = lastCall.before.cb

\* C25: a schedule call that replaces u's job leaves exactly the new job
\* and does not touch a firing in flight; every firing that begins runs
\* the callback of the job then registered.  So after the replacing call
\* the old callback runs only in the one firing that was already in flight.
C25_LastReplaceWins ==
    [][ /\ (CallStep("schedule_daily") /\ lastCall'.outcome = "scheduled") =>
              /\ JobsOf(scheduler', lastCall'.user)
                    = {CronJob(lastCall'.user, 8, 0, lastCall'.cb)}
              /\ bridge' = bridge
        /\ \A u \in Users :
              FireBegins(u) =>
                  /\ bridge'.run[u].cb = scheduler.jobs[JobId(u)].cb
                  /\ bridge.run[u].pc \in {"idle", "returned"} ]_vars

\* C25 witness: the job of u was replaced while its firing was in flight:
\* the running registry holds the new job, and the one runner in flight
\* still carries the old callback.
C25_Witness ==
    /\ lastCall.op = "schedule_daily"
    /\ lastCall.outcome = "scheduled"
    /\ scheduler.state = "running"
    /\ scheduler.jobs[JobId(lastCall.user)] = CronJob(lastCall.user, 8, 0, lastCall.cb)
    /\ bridge.run[lastCall.user].pc = "handoff"
    /\ bridge.run[lastCall.user].cb # lastCall.cb

\* ---------------------------------------------------------------------
\* The settings handlers and the registry.
\* ---------------------------------------------------------------------

\* This step is a settings handler that enabled notifications for u, set
\* u's time, or set u's offset: u's row changed, and did not merely become
\* disabled.
SettingsChanged(u) ==
    /\ phase = "polling"
    /\ phase' = "polling"
    /\ db'[u] # db[u]
    /\ db'[u].push_enabled \/ db'[u].tz_offset_hours # db[u].tz_offset_hours

\* C26: after a settings handler that enables notifications, sets the time
\* or sets the offset of u, with a well-formed time stored, u has exactly
\* one job, at the stored local time translated by the stored offset.
C26_HandlerSchedulesAtTranslatedTime ==
    [][ \A u \in Users :
          (SettingsChanged(u) /\ db'[u].push_time \in WellFormedStored) =>
              /\ JobCount(scheduler', u) = 1
              /\ JobsOf(scheduler', u) =
                    {CronJob(u, PyMod(StoredHour(db'[u].push_time) - db'[u].tz_offset_hours, 24),
                             StoredMinute(db'[u].push_time), PushCard)} ]_vars

\* C30: while the dispatcher polls and no handler is in the middle of its
\* work, a user whose stored flag is disabled has no job in the registry.
C30_DisabledUserNeverHasJob ==
    phase = "polling" =>
        \A u \in Users :
            (db[u].exists /\ ~db[u].push_enabled) => JobCount(scheduler, u) = 0

\* ---------------------------------------------------------------------
\* The push action send_push_card, run by the loop for a job that fired,
\* while the handlers change the profiles and the days pass.
\* ---------------------------------------------------------------------

\* The titles load_cards returns.
Deck == {"card"}

\* A push action that does not look at the profile's flag.
SendPushCardUnchecked(row, today) ==
    [row |-> row, outcome |-> "TypeError"]

\* send_push_card: the profile after the action and how the action ended.
\*   "skipped"         no profile, or pushes disabled: return, lines 19-20
\*   "AttributeError"  today's card is found in the deck, nothing is
\*                     written, and card.image_path() of line 44 raises:
\*                     cards_loader.Card has image_url and no image_path
\*   "TypeError"       choose_random_card(cards) of lines 29 and 36 raises:
\*                     cards_loader.choose_random_card takes (user, cards, db)
\* Both exceptions leave the coroutine before a field is assigned and
\* before the try block of lines 45-51 that sends the card.
SendPushCard(row, today) ==
    IF ~row.exists \/ ~row.push_enabled
    THEN [row |-> row, outcome |-> "skipped"]
    ELSE IF row.last_card # "none" /\ row.last_card_date = today /\ row.last_card \in Deck
         THEN [row |-> row, outcome |-> "AttributeError"]
         ELSE [row |-> row, outcome |-> "TypeError"]

InitPush ==
    /\ started = TRUE
    /\ loop = TRUE
    /\ scheduler = SchedulerStart(NewScheduler)
    /\ lastCall = NoCall
    /\ callers = <<>>
    /\ fired = [u \in Users |-> NoJob]
    /\ db = [u \in Users |-> NoRow]
    /\ phase = "polling"
    /\ queue = <<>>
    /\ conv = NoConv
    /\ bridge = NoBridge
    /\ clock = NoClock
    /\ push = NoPush
    /\ pay = NoPay
    /\ wallet = NoWallet
    /\ bcast = NoBcast

\* _send_card_of_the_day: _get_or_create_user, then today's card again, or
\* a new card by choose_random_card(user, cards, db=session).
SendCardOfTheDay(u) ==
    /\ phase = "polling"
    /\ LET row == [WithPushTime(RowOrNew(u)) EXCEPT !.last_activity_date = clock.day] IN
       db' = [db EXCEPT ![u] =
                 IF row.last_card \in Deck /\ row.last_card_date = clock.day
                 THEN row
                 ELSE [row EXCEPT !.last_card = "card", !.last_card_date = clock.day,
                                  !.draw_count = @ + 1]]
    /\ UNCHANGED <<started, loop, scheduler, phase, queue, appRest>>

\* date.today() moves on.
NextDay ==
    /\ clock.day < MaxDay
    /\ clock' = [clock EXCEPT !.day = @ + 1]
    /\ UNCHANGED <<started, loop, scheduler, lastCall, callers, pay, wallet, bcast, fired, db, phase, queue, conv,
                   bridge, push>>

\* The job of u fires: the runner calls the lambda every handler binds and
\* hands the coroutine send_push_card(bot, u) to the loop.
PushFire(u) ==
    /\ scheduler.state = "running"
    /\ scheduler.jobs[JobId(u)] # NoJob
    /\ push[u].pc # "queued"
    /\ push' = [push EXCEPT ![u] = [pc |-> "queued", outcome |-> "none"]]
    /\ UNCHANGED <<started, loop, scheduler, lastCall, callers, pay, wallet, bcast, fired, db, phase, queue, conv,
                   bridge, clock>>

\* The loop runs the coroutine send_push_card(bot, u) to its end.
PushRun(u) ==
    /\ push[u].pc = "queued"
    /\ LET r == SendPushCard(db[u], clock.day) IN
       /\ db' = [db EXCEPT ![u] = r.row]
       /\ push' = [push EXCEPT ![u] = [pc |-> "ended", outcome |-> r.outcome]]
    /\ UNCHANGED <<started, loop, scheduler, lastCall, callers, pay, wallet, bcast, fired, phase, queue, conv,
                   bridge, clock>>

NextPush ==
    \/ \E u \in Users : CbPushOn(u)
    \/ \E u \in Users : CbPushOff(u)
    \/ \E u \in Users : SendCardOfTheDay(u)
    \/ NextDay
    \/ \E u \in Users : PushFire(u)
    \/ \E u \in Users : PushRun(u)

SpecPush == InitPush /\ [][NextPush]_vars

\* The push action of u runs in this step.
PushRuns(u) == push[u].pc = "queued" /\ push'[u].pc = "ended"

\* The profile of u exists and has pushes enabled.
ProfileEnabled(u) == db[u].exists /\ db[u].push_enabled

\* C27: when the push action runs for a user whose profile is missing or
\* disabled at that moment, it returns before anything is sent, no field of
\* any profile changes, and the registry is left as it is.
C27_DisabledUserPushIsNoop ==
    [][ \A u \in Users :
          (PushRuns(u) /\ ~ProfileEnabled(u)) =>
              /\ push'[u].outcome = "skipped"
              /\ db' = db
              /\ scheduler' = scheduler ]_vars

\* C27 witness: the job of a user fired while pushes were enabled, the
\* user disabled them before the loop ran the action, and the action
\* returned without sending; the profile exists and is disabled.
C27_Witness ==
    \E u \in Users :
        /\ push[u].pc = "ended"
        /\ push[u].outcome = "skipped"
        /\ db[u].exists
        /\ ~db[u].push_enabled
        /\ JobCount(scheduler, u) = 0

\* C28: when the push action runs for an enabled user, the profile's
\* last_activity_date is the current date afterwards.
C28_PushRecordsAttempt ==
    [][ \A u \in Users :
          (PushRuns(u) /\ ProfileEnabled(u)) => db'[u].last_activity_date = clock.day ]_vars

\* C29: a push action that runs for an enabled user ends normally whether
\* or not the card reaches the user: what goes wrong is caught inside the
\* action, nothing is raised to the bridge, and the job stays registered.
C29_DeliveryFailureStaysInside ==
    [][ \A u \in Users :
          (PushRuns(u) /\ ProfileEnabled(u)) =>
              /\ push'[u].outcome \notin {"TypeError", "AttributeError"}
              /\ scheduler' = scheduler ]_vars

\* ---------------------------------------------------------------------
\* One payment: cb_pay_tariff stores it and starts the background check
\* _auto_check_payment; the user presses "check payment" (cb_check_payment)
\* any number of times.  Every await is a point where the loop runs another
\* coroutine.  The block of cb_check_payment that credits the fish, lines
\* 385-418, is read at the level of the with block it follows, as the same
\* block of _auto_check_payment, lines 150-168, is written.
\* ---------------------------------------------------------------------

\* max_attempts of _auto_check_payment.
max_attempts == 18

\* What the provider says of a payment: "paid" is status succeeded with
\* paid true.
ProviderStates == {"pending", "paid", "canceled"}

\* The status stored for an answer of the provider.
StatusOf(got) == IF got = "paid" THEN "succeeded" ELSE got

InitPay ==
    /\ InitIdle
    /\ started = FALSE
    /\ loop = FALSE
    /\ scheduler = NewScheduler
    /\ lastCall = NoCall
    /\ fired = [u \in Users |-> NoJob]

payRest ==
    <<started, loop, scheduler, lastCall, callers, wallet, bcast, fired, db, phase, queue,
      conv, bridge, clock, push>>

\* cb_pay_tariff: the payments row is stored with the provider's status,
\* and asyncio.create_task starts the background check.
PayTariff ==
    /\ ~pay.exists
    /\ pay' = [pay EXCEPT !.exists = TRUE, !.status = "pending", !.auto.pc = "read"]
    /\ UNCHANGED payRest

\* The user pays, or the payment is canceled, at the provider.
ProviderSettles(s) ==
    /\ pay.exists
    /\ pay.provider = "pending"
    /\ s # "pending"
    /\ pay' = [pay EXCEPT !.provider = s]
    /\ UNCHANGED payRest

\* _auto_check_payment, lines 103-121: a poll begins and reads the stored
\* status.
AutoRead ==
    /\ pay.auto.pc = "read"
    /\ pay' = [pay EXCEPT !.auto =
                  [@ EXCEPT !.polls = @ + 1,
                            !.pc = IF ~pay.exists \/ pay.status = "succeeded"
                                   THEN "done" ELSE "query",
                            !.end = IF ~pay.exists THEN "missing"
                                    ELSE IF pay.status = "succeeded" THEN "already"
                                    ELSE "none"]]
    /\ UNCHANGED payRest

\* _auto_check_payment, lines 123-128: get_payment answers, or raises
\* YooKassaError.
AutoQuery(ok) ==
    /\ pay.auto.pc = "query"
    /\ pay' = [pay EXCEPT !.auto =
                  IF ok THEN [@ EXCEPT !.pc = "write", !.got = pay.provider]
                        ELSE [@ EXCEPT !.pc = "sleep"]]
    /\ UNCHANGED payRest

\* _auto_check_payment, lines 135-176: the answer is stored, and the fish
\* are credited when it says succeeded and paid.
AutoWrite ==
    /\ pay.auto.pc = "write"
    /\ LET got == pay.auto.got IN
       pay' = IF ~pay.exists
              THEN [pay EXCEPT !.auto = [@ EXCEPT !.pc = "done", !.end = "missing",
                                                  !.got = "none"]]
              ELSE [pay EXCEPT
                       !.status = StatusOf(got),
                       !.credits = IF got = "paid" THEN @ + 1 ELSE @,
                       !.auto = [@ EXCEPT
                                    !.got = "none",
                                    !.pc = IF got = "pending" THEN "sleep" ELSE "done",
                                    !.end = CASE got = "paid" -> "credited"
                                              [] got = "canceled" -> "canceled"
                                              [] OTHER -> "none"]]
    /\ UNCHANGED payRest

\* A check that polls again however many polls it has made.
AutoSleepForever ==
    /\ pay.auto.pc = "sleep"
    /\ pay' = [pay EXCEPT !.auto = [@ EXCEPT !.pc = "read"]]
    /\ UNCHANGED payRest

\* _auto_check_payment, lines 102, 127, 178-187: asyncio.sleep, then the
\* next of the max_attempts polls, or the message after the last.
AutoSleep ==
    /\ pay.auto.pc = "sleep"
    /\ pay' = [pay EXCEPT !.auto =
                  IF pay.auto.polls < max_attempts
                  THEN [@ EXCEPT !.pc = "read"]
                  ELSE [@ EXCEPT !.pc = "done", !.end = "timeout"]]
    /\ UNCHANGED payRest

\* cb_check_payment, lines 333-356: the stored status is read; a payment
\* stored as succeeded is only reported.
ManualRead(m) ==
    /\ pay.manual[m].pc = "idle"
    /\ pay.exists
    /\ pay.status # "succeeded"
    /\ pay' = [pay EXCEPT !.manual[m].pc = "query"]
    /\ UNCHANGED payRest

\* cb_check_payment, lines 358-368: get_payment answers, or raises
\* YooKassaError and the handler returns.
ManualQuery(m, ok) ==
    /\ pay.manual[m].pc = "query"
    /\ pay' = [pay EXCEPT !.manual[m] =
                  IF ok THEN [pc |-> "write", got |-> pay.provider]
                        ELSE [pc |-> "idle", got |-> "none"]]
    /\ UNCHANGED payRest

\* cb_check_payment, lines 375-432: the answer is stored, and the fish are
\* credited when it says succeeded and paid.
ManualWrite(m) ==
    /\ pay.manual[m].pc = "write"
    /\ LET got == pay.manual[m].got IN
       pay' = IF ~pay.exists
              THEN [pay EXCEPT !.manual[m] = [pc |-> "idle", got |-> "none"]]
              ELSE [pay EXCEPT !.status = StatusOf(got),
                               !.credits = IF got = "paid" THEN @ + 1 ELSE @,
                               !.manual[m] = [pc |-> "idle", got |-> "none"]]
    /\ UNCHANGED payRest

\* The steps of the background check.
AutoStep ==
    \/ AutoRead
    \/ \E ok \in BOOLEAN : AutoQuery(ok)
    \/ AutoWrite
    \/ AutoSleep

NextPay ==
    \/ PayTariff
    \/ \E s \in ProviderStates : ProviderSettles(s)
    \/ AutoStep
    \/ \E m \in Manuals : ManualRead(m)
    \/ \E m \in Manuals, ok \in BOOLEAN : ManualQuery(m, ok)
    \/ \E m \in Manuals : ManualWrite(m)

SpecPay == InitPay /\ [][NextPay]_vars

\* The loop runs a task that is ready: get_payment ends within its timeout
\* and asyncio.sleep ends, so the background check always takes its next
\* step.
SpecPayFair == SpecPay /\ WF_vars(AutoStep)

\* C31: the fish of the payment are added to the balance at most once,
\* however the background check and the "check payment" callbacks
\* interleave at their awaits.
C31_CreditedAtMostOnce == pay.credits <= 1

\* The background check takes a step.
AutoMoves == pay'.auto # pay.auto

\* C32: the background check never begins more than max_attempts polls and,
\* once started, always ends, also when every query of the provider fails.
\* It ends at the poll that finds the payment missing or stored as
\* succeeded, and at the poll whose answer is succeeded and paid, or
\* canceled; it credits the fish in the succeeded and paid case only, and
\* once ended it does nothing more.
C32_AutoCheckEndsWithin18Polls ==
    /\ [](pay.auto.polls <= max_attempts)
    /\ [][ /\ pay.auto.pc = "done" => ~AutoMoves
           /\ (AutoMoves /\ pay.auto.pc = "read" /\ (~pay.exists \/ pay.status = "succeeded")) =>
                 pay'.auto.pc = "done"
           /\ (AutoMoves /\ pay.auto.pc = "write") =>
                 /\ pay.auto.got \in {"paid", "canceled"} => pay'.auto.pc = "done"
                 /\ pay.auto.got = "pending" => pay'.auto.pc = "sleep"
                 /\ pay'.credits = pay.credits + (IF pay.auto.got = "paid" THEN 1 ELSE 0)
           /\ (AutoMoves /\ pay.auto.pc # "write") => pay'.credits = pay.credits ]_vars
    /\ [](pay.auto.pc # "none" => <>(pay.auto.pc = "done"))

\* C32 witness: every query of the provider failed or said pending, and
\* the check ended after its 18th poll without crediting anything.
C32_Witness ==
    /\ pay.auto.pc = "done"
    /\ pay.auto.end = "timeout"
    /\ pay.auto.polls = 18
    /\ pay.credits = 0

\* ---------------------------------------------------------------------
\* The fish balance: the top-up cb_fish_pay and the paid readings.  Each
\* handler reads the balance and commits its write with no await between
\* the two, so on the one loop of the bot each is one step.
\* ---------------------------------------------------------------------

\* PRICE_FISH and FREE_PER_DAY of handle_three_cards_question,
\* NEW_YEAR_READING_PRICE.
PRICE_FISH == 69
FREE_PER_DAY == 1
NEW_YEAR_READING_PRICE == 101

\* The administrators, as the environment names them.
ADMIN_IDS == {1}

\* The tariffs that reach cb_fish_pay, as far as the model draws them: one
\* of the keyboard's and one unknown.
TariffInputs == {50, 7}

\* tariff_to_amounts: the fish a tariff buys, 0 for an unknown tariff.
TariffToFish(amount_rub) ==
    CASE amount_rub = 50 -> 350
      [] amount_rub = 150 -> 1050
      [] amount_rub = 300 -> 2100
      [] amount_rub = 650 -> 4550
      [] OTHER -> 0

InitFish ==
    /\ InitIdle
    /\ started = FALSE
    /\ loop = FALSE
    /\ scheduler = NewScheduler
    /\ lastCall = NoCall
    /\ fired = [u \in Users |-> NoJob]

fishRest ==
    <<started, loop, scheduler, lastCall, callers, pay, bcast, fired, phase, queue, conv,
      bridge, push>>

\* cb_fish_pay: the fish of the tariff are added to the balance.
CbFishPay(u, amount_rub) ==
    /\ u \in ADMIN_IDS
    /\ TariffToFish(amount_rub) # 0
    /\ wallet[u].fish_balance + TariffToFish(amount_rub) <= MaxFish
    /\ wallet' = [wallet EXCEPT ![u].fish_balance = @ + TariffToFish(amount_rub),
                                ![u].last = "topup"]
    /\ db' = [db EXCEPT ![u] = RowOrNew(u)]
    /\ UNCHANGED <<clock, fishRest>>

\* A three-cards reading that is free as long as the count is at most
\* FREE_PER_DAY.
ThreeCardsQuestionFreeTwice(u) ==
    LET today == clock.day
        w == wallet[u]
        daily_count == IF w.three_keys_last_date # today THEN 0 ELSE w.three_keys_daily_count
    IN  IF daily_count > FREE_PER_DAY /\ w.fish_balance < PRICE_FISH
        THEN /\ wallet' = [wallet EXCEPT ![u].last = "refused"]
             /\ UNCHANGED <<db, clock, fishRest>>
        ELSE /\ wallet' = [wallet EXCEPT ![u] =
                              [w EXCEPT !.fish_balance =
                                            IF daily_count > FREE_PER_DAY
                                            THEN w.fish_balance - PRICE_FISH ELSE w.fish_balance,
                                        !.three_keys_last_date = today,
                                        !.three_keys_daily_count = daily_count + 1,
                                        !.last = IF daily_count > FREE_PER_DAY
                                                 THEN "paid" ELSE "free"]]
             /\ db' = [db EXCEPT ![u] = [RowOrNew(u) EXCEPT !.draw_count = @ + 3,
                                                           !.last_activity_date = today]]
             /\ UNCHANGED <<clock, fishRest>>

\* handle_three_cards_question, lines 1325-1392: the first reading of the
\* day is free, a later one costs PRICE_FISH and is refused, with nothing
\* written, when the balance is smaller.
ThreeCardsQuestion(u) ==
    LET today == clock.day
        w == wallet[u]
        daily_count == IF w.three_keys_last_date # today THEN 0 ELSE w.three_keys_daily_count
    IN  IF daily_count >= FREE_PER_DAY /\ w.fish_balance < PRICE_FISH
        THEN /\ wallet' = [wallet EXCEPT ![u].last = "refused"]
             /\ UNCHANGED <<db, clock, fishRest>>
        ELSE /\ wallet' = [wallet EXCEPT ![u] =
                              [w EXCEPT !.fish_balance =
                                            IF daily_count >= FREE_PER_DAY
                                            THEN w.fish_balance - PRICE_FISH ELSE w.fish_balance,
                                        !.three_keys_last_date = today,
                                        !.three_keys_daily_count = daily_count + 1,
                                        !.last = IF daily_count >= FREE_PER_DAY
                                                 THEN "paid" ELSE "free"]]
             /\ db' = [db EXCEPT ![u] = [RowOrNew(u) EXCEPT !.draw_count = @ + 3,
                                                           !.last_activity_date = today]]
             /\ UNCHANGED <<clock, fishRest>>

\* A new-year reading that debits without looking at the balance.
NewYearReadingUnchecked(u) ==
    /\ u \in ADMIN_IDS
    /\ wallet' = [wallet EXCEPT ![u].fish_balance = @ - NEW_YEAR_READING_PRICE,
                                ![u].last = "new_year"]
    /\ db' = [db EXCEPT ![u] = RowOrNew(u)]
    /\ UNCHANGED <<clock, fishRest>>

\* btn_new_year_reading, lines 1845-1891.
NewYearReading(u) ==
    /\ u \in ADMIN_IDS
    /\ wallet' = IF wallet[u].fish_balance < NEW_YEAR_READING_PRICE
                 THEN [wallet EXCEPT ![u].last = "refused"]
                 ELSE [wallet EXCEPT ![u].fish_balance = @ - NEW_YEAR_READING_PRICE,
                                     ![u].last = "new_year"]
    /\ db' = [db EXCEPT ![u] = RowOrNew(u)]
    /\ UNCHANGED <<clock, fishRest>>

\* cb_year_energy_deep_reading, lines 2255-2299: _get_or_create_user, then
\* the same test and debit.
CbYearEnergyDeepReading(u) ==
    /\ u \in ADMIN_IDS
    /\ wallet' = IF wallet[u].fish_balance < NEW_YEAR_READING_PRICE
                 THEN [wallet EXCEPT ![u].last = "refused"]
                 ELSE [wallet EXCEPT ![u].fish_balance = @ - NEW_YEAR_READING_PRICE,
                                     ![u].last = "year_energy"]
    /\ db' = [db EXCEPT ![u] =
                 [WithPushTime(RowOrNew(u)) EXCEPT !.last_activity_date = clock.day]]
    /\ UNCHANGED <<clock, fishRest>>

NextFish ==
    \/ \E u \in Users, a \in TariffInputs : CbFishPay(u, a)
    \/ \E u \in Users : ThreeCardsQuestion(u)
    \/ \E u \in Users : NewYearReading(u)
    \/ \E u \in Users : CbYearEnergyDeepReading(u)
    \/ NextDay

SpecFish == InitFish /\ [][NextFish]_vars

\* C33: the fish balance of a user is never negative.  It goes down only
\* by a paid reading, by exactly the reading's price, 69 or 101, and only
\* from a balance of at least that price; a refused reading leaves the
\* balance as it was.
C33_BalanceNeverNegative ==
    /\ [](\A u \in Users : wallet[u].fish_balance >= 0)
    /\ [][ \A u \in Users :
             LET old == wallet[u].fish_balance
                 new == wallet'[u].fish_balance
             IN  /\ new < old =>
                       \/ /\ wallet'[u].last = "paid"
                          /\ old - new = 69
                          /\ old >= 69
                       \/ /\ wallet'[u].last \in {"new_year", "year_energy"}
                          /\ old - new = 101
                          /\ old >= 101
                 /\ wallet'[u].last = "refused" => new = old ]_vars

\* C33 witness: after a top-up and paid readings a reading was refused:
\* the balance is positive and smaller than the price of any reading.
C33_Witness ==
    \E u \in Users :
        /\ wallet[u].last = "refused"
        /\ wallet[u].fish_balance > 0
        /\ wallet[u].fish_balance < 69

\* C34: a three-cards reading that is the user's first of the date debits
\* nothing and sets the day's counter to 1; every later one on that date
\* debits exactly 69 and adds one to the counter.
C34_FirstReadingFreeThenPaid ==
    [][ \A u \in Users :
          (wallet'[u] # wallet[u] /\ wallet'[u].last \in {"free", "paid"}) =>
              /\ wallet'[u].three_keys_last_date = clock.day
              /\ IF wallet[u].three_keys_last_date # clock.day
                 THEN /\ wallet'[u].last = "free"
                      /\ wallet'[u].fish_balance = wallet[u].fish_balance
                      /\ wallet'[u].three_keys_daily_count = 1
                 ELSE /\ wallet'[u].last = "paid"
                      /\ wallet'[u].fish_balance = wallet[u].fish_balance - 69
                      /\ wallet'[u].three_keys_daily_count
                            = wallet[u].three_keys_daily_count + 1 ]_vars

\* C34 witness: on the second date the user has had a free reading and two
\* paid ones: the counter restarted and stands at 3.
C34_Witness ==
    \E u \in Users :
        /\ clock.day = 1
        /\ wallet[u].three_keys_last_date = 1
        /\ wallet[u].three_keys_daily_count = 3
        /\ wallet[u].last = "paid"

\* ---------------------------------------------------------------------
\* The advice card of cb_advice_draw and its limit per day.
\* ---------------------------------------------------------------------

\* An advice draw that issues a card whatever the counter says.
AdviceDrawNoLimit(u) ==
    LET today == clock.day
        count == IF wallet[u].advice_last_date # today THEN 0 ELSE wallet[u].daily_advice_count
    IN  /\ wallet' = [wallet EXCEPT ![u].advice_last_date = today,
                                    ![u].daily_advice_count = count + 1,
                                    ![u].last = "advice"]
        /\ db' = [db EXCEPT ![u] = [WithPushTime(RowOrNew(u)) EXCEPT !.last_activity_date = today]]
        /\ UNCHANGED <<clock, fishRest>>

\* cb_advice_draw, lines 1192-1216: the counter restarts on a new date; at
\* 2 the draw is refused, below 2 a card is chosen and the counter goes up
\* by one, committed before the first await.
AdviceDraw(u) ==
    LET today == clock.day
        count == IF wallet[u].advice_last_date # today THEN 0 ELSE wallet[u].daily_advice_count
    IN  /\ wallet' = IF count >= 2
                     THEN [wallet EXCEPT ![u].advice_last_date = today,
                                         ![u].daily_advice_count = count,
                                         ![u].last = "limit"]
                     ELSE [wallet EXCEPT ![u].advice_last_date = today,
                                         ![u].daily_advice_count = count + 1,
                                         ![u].last = "advice"]
        /\ db' = [db EXCEPT ![u] = [WithPushTime(RowOrNew(u)) EXCEPT !.last_activity_date = today]]
        /\ UNCHANGED <<clock, fishRest>>

NextAdvice ==
    \/ \E u \in Users : AdviceDraw(u)
    \/ NextDay

SpecAdvice == InitFish /\ [][NextAdvice]_vars

\* C35: the stored advice counter of a user never exceeds 2.  The first
\* draw of a date restarts it and issues a card, leaving it at 1; a later
\* draw below the limit issues a card and adds one; a draw at the limit
\* issues no card and leaves the counter as it was.
C35_AtMostTwoAdvicesPerDay ==
    /\ [](\A u \in Users : wallet[u].daily_advice_count \in 0..2)
    /\ [][ \A u \in Users :
             wallet'[u] # wallet[u] =>
                 /\ wallet'[u].advice_last_date = clock.day
                 /\ IF wallet[u].advice_last_date # clock.day
                    THEN /\ wallet'[u].daily_advice_count = 1
                         /\ wallet'[u].last = "advice"
                    ELSE IF wallet[u].daily_advice_count = 2
                    THEN /\ wallet'[u].daily_advice_count = 2
                         /\ wallet'[u].last = "limit"
                    ELSE /\ wallet'[u].daily_advice_count = wallet[u].daily_advice_count + 1
                         /\ wallet'[u].last = "advice" ]_vars

\* C35 witness: on the second date the user drew two advice cards and a
\* third draw was refused.
C35_Witness ==
    \E u \in Users :
        /\ clock.day = 1
        /\ wallet[u].advice_last_date = 1
        /\ wallet[u].daily_advice_count = 2
        /\ wallet[u].last = "limit"

\* ---------------------------------------------------------------------
\* The card of the day, asked for in the chat and by the push action.
\* ---------------------------------------------------------------------

\* The profile of u holds a card of the deck drawn on the current date.
CardStoredToday(u) ==
    db[u].exists /\ db[u].last_card \in Deck /\ db[u].last_card_date = clock.day

\* C36: while a card of the day is stored for a user on the current date,
\* no request changes the stored card or the draw count, and a push action
\* that runs for an enabled user returns the card of the day: the stored
\* one with the draw count as it was, or on the first draw of the date a
\* new one with the draw count one higher.
C36_CardOfTheDayIsStable ==
    [][ \A u \in Users :
          /\ (CardStoredToday(u) /\ clock' = clock) =>
                 /\ db'[u].last_card = db[u].last_card
                 /\ db'[u].draw_count = db[u].draw_count
          /\ (PushRuns(u) /\ ProfileEnabled(u)) =>
                 /\ push'[u].outcome \notin {"AttributeError", "TypeError"}
                 /\ db'[u].last_card \in Deck
                 /\ db'[u].last_card_date = clock.day
                 /\ db'[u].draw_count =
                        IF CardStoredToday(u) THEN db[u].draw_count ELSE db[u].draw_count + 1 ]_vars

\* ---------------------------------------------------------------------
\* msg_tz_hour as a function of the hour the user sent and Moscow's hour.
\* ---------------------------------------------------------------------

\* The numbers re.search(r"\d{1,2}", text) can hand to the range test:
\* every hour of the dial, and 24, 25 and 99 beyond it.
ReportedHours == (0..25) \cup {99}

\* datetime.now(msk_tz).hour
ReferenceHours == 0..23

\* One message in the state asking_tz, not yet handled.
InitTz ==
    /\ started = TRUE
    /\ loop = TRUE
    /\ scheduler = SchedulerStart(NewScheduler)
    /\ lastCall = NoCall
    /\ callers = <<>>
    /\ fired = [u \in Users |-> NoJob]
    /\ db = [u \in Users |-> NoRow]
    /\ phase = "polling"
    /\ queue = <<>>
    /\ conv \in [user : Users, hour : ReportedHours, msk_hour : ReferenceHours,
                 reply : {"none"}]
    /\ bridge = NoBridge
    /\ clock = NoClock
    /\ push = NoPush
    /\ pay = NoPay
    /\ wallet = NoWallet
    /\ bcast = NoBcast

\* msg_tz_hour from the range test on: an hour off the dial is answered
\* and nothing else happens; an hour of the dial gives the offset, which
\* is stored with the default push time and handed to
\* schedule_daily_with_offset.
MsgTzHourAnswer ==
    /\ conv.reply = "none"
    /\ IF ~(0 <= conv.hour /\ conv.hour <= 23)
       THEN /\ conv' = [conv EXCEPT !.reply = "range"]
            /\ UNCHANGED <<db, scheduler>>
       ELSE LET off == TzOffsetFromHour(conv.hour, conv.msk_hour)
                row == WithPushTime([RowOrNew(conv.user) EXCEPT !.tz_offset_hours = off])
            IN  /\ db' = [db EXCEPT ![conv.user] = row]
                /\ scheduler' = ScheduleDailyWithOffset(scheduler, conv.user, row.push_time,
                                                        off, PushCard).sch
                /\ conv' = [conv EXCEPT !.reply = "saved"]
    /\ UNCHANGED <<started, loop, lastCall, callers, pay, wallet, bcast, fired, phase, queue,
                   bridge, clock, push>>

SpecTz == InitTz /\ [][MsgTzHourAnswer]_vars

\* C37: an hour of 0..23 is always saved, and the offset stored for it
\* lies in -12..11 and added to Moscow's hour gives the reported hour up
\* to a whole day; an hour outside 0..23 is never saved: no profile is
\* written and no job is registered.
C37_OffsetInRangeAndExact ==
    /\ conv.reply = "saved" =>
           /\ conv.hour \in 0..23
           /\ db[conv.user].exists
           /\ db[conv.user].tz_offset_hours \in -12..11
           /\ \E k \in -1..1 :
                  conv.msk_hour + db[conv.user].tz_offset_hours = conv.hour + 24 * k
    /\ conv.reply = "range" =>
           /\ conv.hour \notin 0..23
           /\ \A u \in Users : db[u] = NoRow /\ JobCount(scheduler, u) = 0

\* C37 witness: Moscow's hour is 23 and the user reports 1; the stored
\* offset is 2, across midnight.
C37_Witness ==
    /\ conv.reply = "saved"
    /\ conv.hour = 1
    /\ conv.msk_hour = 23
    /\ db[conv.user].tz_offset_hours = 2
    /\ JobCount(scheduler, conv.user) = 1

\* ---------------------------------------------------------------------
\* The admin broadcast: PENDING_PUSHES and the callbacks on its tokens.
\* bcast.pending is the key set of PENDING_PUSHES, bcast.found[t] counts
\* the confirm callbacks whose pop returned the payload of t, and
\* bcast.handled holds the tokens a confirm or a cancel has popped.
\* ---------------------------------------------------------------------

PushTypes == {"simple", "reading"}

bcastRest ==
    <<started, loop, scheduler, lastCall, callers, pay, wallet, fired, db, phase, queue,
      conv, bridge, clock, push>>

\* admin_push and admin_push_text: a new token from secrets.token_urlsafe
\* becomes pending with push_type None.
AdminPush(u) ==
    /\ u \in ADMIN_IDS
    /\ bcast.made < MaxToken
    /\ bcast' = [bcast EXCEPT !.made = @ + 1,
                              !.pending = @ \cup {bcast.made + 1}]
    /\ UNCHANGED bcastRest

\* cb_admin_push_type: after the answer, the payload of a pending token
\* gets its push_type; a token that is not pending stays so.
CbAdminPushType(u, t, ty) ==
    /\ u \in ADMIN_IDS
    /\ t \in 1..bcast.made
    /\ bcast' = IF t \in bcast.pending
                THEN [bcast EXCEPT !.push_type[t] = ty]
                ELSE bcast
    /\ UNCHANGED bcastRest

\* cb_admin_push_confirm up to its await cb.answer(), lines 871-878: the
\* button of any token made so far is pressed, by anyone.
ConfirmBegin(c, u, t) ==
    /\ bcast.calls[c].pc = "idle"
    /\ t \in 1..bcast.made
    /\ bcast' = [bcast EXCEPT !.calls[c] =
                     IF u \in ADMIN_IDS
                     THEN [pc |-> "answering", token |-> t, result |-> "none"]
                     ELSE [pc |-> "idle", token |-> t, result |-> "denied"]]
    /\ UNCHANGED bcastRest

\* A confirm that reads the payload with get and leaves it pending.
ConfirmGet(c) ==
    LET t == bcast.calls[c].token IN
    /\ bcast.calls[c].pc = "answering"
    /\ bcast' = IF t \in bcast.pending
                THEN [bcast EXCEPT !.found[t] = @ + 1,
                                   !.handled = @ \cup {t},
                                   !.calls[c] = [pc |-> "sending", token |-> t,
                                                 result |-> "found"]]
                ELSE [bcast EXCEPT !.handled = @ \cup {t},
                                   !.calls[c] = [pc |-> "idle", token |-> t,
                                                 result |-> "notfound"]]
    /\ UNCHANGED bcastRest

\* cb_admin_push_confirm, lines 880-891: PENDING_PUSHES.pop(token, None);
\* without a payload the callback ends, with one it goes on to send.
ConfirmPop(c) ==
    LET t == bcast.calls[c].token IN
    /\ bcast.calls[c].pc = "answering"
    /\ bcast' = IF t \in bcast.pending
                THEN [bcast EXCEPT !.pending = @ \ {t},
                                   !.found[t] = @ + 1,
                                   !.handled = @ \cup {t},
                                   !.calls[c] = [pc |-> "sending", token |-> t,
                                                 result |-> "found"]]
                ELSE [bcast EXCEPT !.handled = @ \cup {t},
                                   !.calls[c] = [pc |-> "idle", token |-> t,
                                                 result |-> "notfound"]]
    /\ UNCHANGED bcastRest

\* cb_admin_push_confirm, lines 893-940: the messages go out, with awaits
\* in between, and the callback ends.
ConfirmSend(c) ==
    /\ bcast.calls[c].pc = "sending"
    /\ bcast' = [bcast EXCEPT !.calls[c].pc = "idle", !.calls[c].result = "sent"]
    /\ UNCHANGED bcastRest

\* cb_admin_push_cancel: PENDING_PUSHES.pop(token, None) before any await.
CbAdminPushCancel(u, t) ==
    /\ u \in ADMIN_IDS
    /\ t \in 1..bcast.made
    /\ bcast' = [bcast EXCEPT !.pending = @ \ {t}, !.handled = @ \cup {t}]
    /\ UNCHANGED bcastRest

NextBcast ==
    \/ \E u \in Users : AdminPush(u)
    \/ \E u \in Users, t \in Tokens, ty \in PushTypes : CbAdminPushType(u, t, ty)
    \/ \E c \in Confirms, u \in Users, t \in Tokens : ConfirmBegin(c, u, t)
    \/ \E c \in Confirms : ConfirmPop(c)
    \/ \E c \in Confirms : ConfirmSend(c)
    \/ \E u \in Users, t \in Tokens : CbAdminPushCancel(u, t)

\* No token made, no callback in flight.
InitBcast == InitFish

SpecBcast == InitBcast /\ [][NextBcast]_vars

\* C38: for every token at most one confirm callback finds the payload,
\* and a token that a confirm or a cancel has handled is not pending,
\* then and ever after.
C38_TokenStartsAtMostOneBroadcast ==
    /\ \A t \in Tokens : bcast.found[t] <= 1
    /\ bcast.handled \cap bcast.pending = {}

\* C38 witness: two confirm callbacks of one token were in flight
\* together; the first found the payload and is sending, the second found
\* nothing and ended.
C38_Witness ==
    \E c1, c2 \in Confirms :
        /\ c1 # c2
        /\ bcast.calls[c1].pc = "sending"
        /\ bcast.calls[c2].result = "notfound"
        /\ bcast.calls[c2].pc = "idle"
        /\ bcast.calls[c1].token = bcast.calls[c2].token
        /\ bcast.found[bcast.calls[c1].token] = 1

====
